---- MODULE Spec2Model ----
(***************************************************************************)
(* CloudSplit: share calculation, bill persistence and cross-bill          *)
(* aggregation.                                                            *)
(*                                                                         *)
(* Numbers.  The program computes with JavaScript doubles and stores money *)
(* in NUMERIC(p,2) columns.  Money is modelled in cents, discount_ratio in *)
(* hundredths, and every computed amount as an exact fraction of 1/10000   *)
(* of the currency unit (record [num, den], kept in lowest terms), so that *)
(* the only rounding in the model is the one the database performs when a  *)
(* value enters a NUMERIC(p,2) column.                                     *)
(***************************************************************************)
EXTENDS Integers, Sequences, FiniteSets, TLC

NULL == "null"       \* no string
NoId == 0            \* no id: null, '' or a missing row
Undefined == 0 - 1000000   \* the id `undefined`

----------------------------------------------------------------------------
(* Exact arithmetic on amounts *)

Abs(x) == IF x < 0 THEN -x ELSE x

RECURSIVE Gcd(_, _)
Gcd(a, b) == IF b = 0 THEN a ELSE Gcd(b, a % b)

\* the fraction n/d in lowest terms, d > 0
Rat(n, d) ==
    LET g == Gcd(Abs(n), d)
    IN  [num |-> n \div g, den |-> d \div g]

RatZero == [num |-> 0, den |-> 1]

RatAdd(x, y) == Rat(x.num * y.den + y.num * x.den, x.den * y.den)

\* unit_price * discount_ratio + discount_adjustment, in 1/10000
ItemTotal(unitPrice, discountRatio, discountAdjustment) ==
    unitPrice * discountRatio + 100 * discountAdjustment

----------------------------------------------------------------------------
(* utils/calculations.ts *)

\* variant: the formula of the README, (unitPrice / shareCount) * ratio + adjustment
calculateShareAmount_readme(unitPrice, shareCount, discountRatio, discountAdjustment) ==
    IF shareCount = 0 THEN RatZero
    ELSE Rat(unitPrice * discountRatio + 100 * discountAdjustment * shareCount, shareCount)

\* variant: a negative share clamped to 0
calculateShareAmount_clamped(unitPrice, shareCount, discountRatio, discountAdjustment) ==
    IF shareCount = 0 THEN RatZero
    ELSE IF ItemTotal(unitPrice, discountRatio, discountAdjustment) < 0 THEN RatZero
    ELSE Rat(ItemTotal(unitPrice, discountRatio, discountAdjustment), shareCount)

calculateShareAmount(unitPrice, shareCount, discountRatio, discountAdjustment) ==
    IF shareCount = 0 THEN RatZero
    ELSE Rat(unitPrice * discountRatio + 100 * discountAdjustment, shareCount)


----------------------------------------------------------------------------
(* Bounds and value domains *)

MaxEvents == 4        \* user gestures and failed requests in one run

Clients == {1, 2}
Owner == "u1"
\* strings are sequences of characters
Names == {<<"A">>, <<"B">>}             \* what is typed as a participant name
Titles == {<<"T">>}                     \* what is typed as a title
ItemNames == {<<"t", "e", "a">>}        \* what is typed as an item name
Prices == {0, 101}                      \* cents
Ratios == {90, 100}                     \* hundredths
Adjustments == {-50, 0}                 \* cents

----------------------------------------------------------------------------
(* State *)

VARIABLES
    bills,              \* table bills: set of rows
    bill_participants,  \* table bill_participants: set of rows
    bill_items,         \* table bill_items: set of rows
    split_details,      \* table split_details: set of rows
    nextId,             \* ids the database hands out next, per table
    ed,                 \* per client: the BillEditor component and its running handleSave
    events,             \* user gestures and failed requests so far
    faulty,             \* whether storage requests may fail in this run
    calc,               \* the share calculator applied to one input
    summary,            \* the PaymentSummary component and its running loadPaymentSummary
    participant_payments, \* table participant_payments: set of rows
    session,            \* the user of the browser's auth session, or NULL
    dashboard           \* the Dashboard component and its running handleDeleteBill

vars == <<bills, bill_participants, bill_items, split_details, nextId, ed,
          events, faulty, calc, summary, participant_payments, session, dashboard>>

storage == <<bills, bill_participants, bill_items, split_details, nextId>>

----------------------------------------------------------------------------
(* Sequences *)

Range(s) == {s[i] : i \in DOMAIN s}

RECURSIVE SelectIdx(_, _, _)
\* the elements s[i], i >= from, whose index is in keep, in order
SelectIdx(s, keep, from) ==
    IF from > Len(s) THEN <<>>
    ELSE IF from \in keep THEN <<s[from]>> \o SelectIdx(s, keep, from + 1)
    ELSE SelectIdx(s, keep, from + 1)

\* Array.prototype.filter
Filter(s, Test(_)) == SelectIdx(s, {i \in DOMAIN s : Test(s[i])}, 1)

\* Array.prototype.map
Map(s, F(_)) == [i \in DOMAIN s |-> F(s[i])]

RECURSIVE Flatten(_)
Flatten(ss) == IF ss = <<>> THEN <<>> ELSE Head(ss) \o Flatten(Tail(ss))

RECURSIVE SumRat(_)
SumRat(s) == IF s = <<>> THEN RatZero ELSE RatAdd(Head(s), SumRat(Tail(s)))

\* the rows of a set as a sequence ordered by id (the order of a batch insert)
RECURSIVE SortById(_)
SortById(S) ==
    IF S = {} THEN <<>>
    ELSE LET m == CHOOSE r \in S : \A q \in S : r.id <= q.id
         IN  <<m>> \o SortById(S \ {m})


----------------------------------------------------------------------------
(* Strings *)

RECURSIVE TrimLeft(_)
TrimLeft(s) == IF s # <<>> /\ Head(s) = " " THEN TrimLeft(Tail(s)) ELSE s

RECURSIVE TrimRight(_)
TrimRight(s) ==
    IF s # <<>> /\ s[Len(s)] = " " THEN TrimRight(SubSeq(s, 1, Len(s) - 1)) ELSE s

\* String.prototype.trim
Trim(s) == TrimRight(TrimLeft(s))

----------------------------------------------------------------------------
(* components/BillEditor.tsx: the editor's state and its synchronous handlers *)

HistoryLimit == 50

\* a DATE is <<year, month, day>>; the date the editor starts with, and the
\* date an imported bill without bill_date gets: the day the program runs
defaultDate == <<2025, 2, 3>>

\* ids the editor makes up are negative, ids of stored rows are positive
IsTemp(id) == id < 0                       \* id.startsWith('temp')
TempId(counter) == 0 - (10 + counter)      \* `temp_${Date.now()}`
ImportPid(index) == 0 - (index + 1)        \* `temp_import_${index}`, index from 0

\* the component as mounted for a new bill
BillEditor ==
    [pc |-> "closed", billId |-> NoId, user |-> Owner, canEdit |-> TRUE,
     title |-> <<>>, participants |-> <<>>, items |-> <<>>,
     historyState |-> <<>>, historyIndex |-> -1,
     tempCounter |-> 0, alert |-> NULL,
     \* locals of the running handleSave
     currentBillId |-> NoId, closure |-> <<>>, finalParticipants |-> <<>>,
     currentIds |-> {}, itemIds |-> {}, pending |-> {},
     itemsToInsert |-> <<>>, splitsToInsert |-> <<>>, totalAmount |-> RatZero,
     \* bookkeeping for the properties: whether every request of the running
     \* handleSave succeeded, the bill's split rows and its other rows when it
     \* started, and what the last handleSave that ran to its end was called with
     clean |-> TRUE, before |-> {},
     stored |-> [participants |-> {}, items |-> {}, total_amount |-> 0],
     lastRun |-> [done |-> FALSE],
     \* locals of the running handleBatchSave, and the bills it has gone through
     billsData |-> <<>>, index |-> 0, successCount |-> 0, failCount |-> 0,
     batch |-> <<>>]

saveToHistory(e, participantsState, itemsState) ==
    LET newHistory == [participants |-> participantsState, items |-> itemsState]
        pushed == SubSeq(e.historyState, 1, e.historyIndex + 1) \o <<newHistory>>
        updatedHistory == IF Len(pushed) > HistoryLimit THEN Tail(pushed) ELSE pushed
    IN  [e EXCEPT !.historyState = updatedHistory,
                  !.historyIndex = Len(updatedHistory) - 1]

handleUndo(e) ==
    IF e.historyIndex > 0
    THEN LET prevState == e.historyState[e.historyIndex]   \* historyState[historyIndex - 1]
         IN  [e EXCEPT !.participants = prevState.participants,
                       !.items = prevState.items,
                       !.historyIndex = e.historyIndex - 1]
    ELSE e

addParticipant(e, newParticipantName) ==
    IF Trim(newParticipantName) = <<>> THEN e
    ELSE IF \E i \in DOMAIN e.participants :
                e.participants[i].name = Trim(newParticipantName)
    THEN [e EXCEPT !.alert = "participant name exists"]
    ELSE [e EXCEPT !.participants =
                       Append(@, [id |-> TempId(e.tempCounter),
                                  name |-> Trim(newParticipantName)]),
                   !.tempCounter = @ + 1]

\* the name typed for participant id is committed
saveEditingParticipant(e, editingParticipantId, editParticipantName) ==
    IF Trim(editParticipantName) = <<>> THEN e
    ELSE IF \E i \in DOMAIN e.participants :
                /\ e.participants[i].name = Trim(editParticipantName)
                /\ e.participants[i].id # editingParticipantId
    THEN [e EXCEPT !.alert = "participant name exists"]
    ELSE [e EXCEPT !.participants = Map(e.participants, LAMBDA p :
                       IF p.id = editingParticipantId
                       THEN [p EXCEPT !.name = Trim(editParticipantName)] ELSE p)]

removeParticipant(e, id) ==
    LET h == saveToHistory(e, e.participants, e.items)
    IN  [h EXCEPT !.participants = Filter(e.participants, LAMBDA p : p.id # id),
                  !.items = Map(e.items, LAMBDA item :
                      [item EXCEPT !.participantIds =
                          Filter(item.participantIds, LAMBDA pid : pid # id)])]

MaxSortOrder(items) ==
    IF Len(items) > 0
    THEN CHOOSE m \in {items[i].sort_order : i \in DOMAIN items} :
             \A i \in DOMAIN items : items[i].sort_order <= m
    ELSE -1

addItem(e) ==
    [e EXCEPT !.items = Append(@,
                  [id |-> TempId(e.tempCounter), item_name |-> <<>>, unit_price |-> 0,
                   discount_ratio |-> 100, discount_adjustment |-> 0,
                   participantIds |-> <<>>,
                   sort_order |-> MaxSortOrder(e.items) + 1]),
              !.tempCounter = @ + 1]

updateItem(e, id, field, value) ==
    [e EXCEPT !.items = Map(@, LAMBDA item :
        IF item.id = id THEN [item EXCEPT ![field] = value] ELSE item)]

toggleItemParticipant(e, itemId, participantId) ==
    [e EXCEPT !.items = Map(@, LAMBDA item :
        IF item.id # itemId THEN item
        ELSE LET isSelected == participantId \in Range(item.participantIds)
             IN  [item EXCEPT !.participantIds =
                     IF isSelected
                     THEN Filter(item.participantIds, LAMBDA id : id # participantId)
                     ELSE Append(item.participantIds, participantId)])]

removeItem(e, id) ==
    [e EXCEPT !.items = Filter(@, LAMBDA item : item.id # id)]

\* calculateParticipantTotals: one entry per participant, in the order of the
\* keys of `totals`; every occurrence of an id in participantIds adds the share
calculateParticipantTotals(participants, items) ==
    LET added == Flatten(Map(items, LAMBDA item :
                     IF Len(item.participantIds) = 0 THEN <<>>
                     ELSE Map(item.participantIds, LAMBDA participantId :
                              [participantId |-> participantId,
                               shareAmount |-> calculateShareAmount(
                                   item.unit_price, Len(item.participantIds),
                                   item.discount_ratio, item.discount_adjustment)])))
    IN  Map(participants, LAMBDA p :
            [participantId |-> p.id, name |-> p.name,
             total |-> SumRat(Map(Filter(added, LAMBDA a : a.participantId = p.id),
                                  LAMBDA a : a.shareAmount))])


----------------------------------------------------------------------------
(* handleImportJSON: one parsed bill loaded into the editor *)

DigitChars == <<"0", "1", "2", "3", "4", "5", "6", "7", "8", "9">>

RECURSIVE NumToString(_)
NumToString(n) ==
    IF n < 10 THEN <<DigitChars[n + 1]>>
    ELSE NumToString(n \div 10) \o <<DigitChars[(n % 10) + 1]>>

\* x || dflt for a number; a missing field is written 0, which is as falsy
OrElse(x, dflt) == IF x = 0 THEN dflt ELSE x

ImportItem(name, price, quantity, ratio, adjustment, names) ==
    [item_name |-> name, unit_price |-> price, quantity |-> quantity,
     discount_ratio |-> ratio, discount_adjustment |-> adjustment,
     participants |-> names]

\* the bills a user pastes: an assigned and an unassigned item with names to
\* trim, a quantity of 2, a name listed twice, and a bill without a title
DocTrim ==
    [title |-> <<"T">>, participants |-> << <<"A">>, <<" ", "B">> >>,
     items |-> << ImportItem(<<"t", "e", "a">>, 101, 0, 0, 0,
                             << <<"A">>, <<"B", " ">> >>),
                  ImportItem(<<"t", "e", "a">>, 101, 0, 90, -50, <<>>) >>]
DocQuantity ==
    [title |-> <<"T">>, participants |-> << <<"A">>, <<"B">> >>,
     items |-> << ImportItem(<<"t", "e", "a">>, 101, 2, 90, -50, << <<"A">> >>) >>]
DocTwice ==
    [title |-> <<"T">>, participants |-> << <<"A">>, <<"B">> >>,
     items |-> << ImportItem(<<"t", "e", "a">>, 101, 0, 0, 0,
                             << <<"A">>, <<"A">> >>) >>]
DocNoTitle ==
    [title |-> <<>>, participants |-> << <<"A">> >>, items |-> <<>>]

ImportDocs == {DocTrim, DocQuantity, DocTwice, DocNoTitle}

\* participantMap.get(name): the id set last for that name, if any
MapGet(pairs, name, missing) ==
    LET hits == {i \in DOMAIN pairs : pairs[i].name = name}
    IN  IF hits = {} THEN missing
        ELSE pairs[CHOOSE i \in hits : \A j \in hits : j <= i].id

ExpandImportedItem(item, index, participantIds) ==
    LET quantity == OrElse(item.quantity, 1)
        unitPrice == OrElse(item.unit_price, 0)
    IN  [i \in 1..quantity |->
            [id |-> 0 - (100 + 10 * index + i),      \* `temp_item_${index}_${i}`
             item_name |-> IF quantity > 1
                           THEN item.item_name \o <<" ", "(">> \o NumToString(i)
                                \o <<"/">> \o NumToString(quantity) \o <<")">>
                           ELSE item.item_name,
             unit_price |-> unitPrice,
             discount_ratio |-> OrElse(item.discount_ratio, 100),
             discount_adjustment |-> IF i = 1 THEN OrElse(item.discount_adjustment, 0)
                                     ELSE 0,
             participantIds |-> participantIds]]

\* sort_order: sortOrderCounter++ over the expanded items
Renumber(items) == [i \in DOMAIN items |-> [sort_order |-> i - 1] @@ items[i]]

handleImportJSON(e, billData) ==
    IF billData.title = <<>>
    THEN [e EXCEPT !.alert = "JSON format error"]
    ELSE
    LET importedParticipants ==
            [i \in DOMAIN billData.participants |->
                [id |-> ImportPid(i - 1), name |-> Trim(billData.participants[i])]]
        importedItems ==
            Renumber(Flatten(
                [k \in DOMAIN billData.items |->
                    ExpandImportedItem(
                        billData.items[k], k - 1,
                        Filter(Map(billData.items[k].participants, LAMBDA name :
                                   MapGet(importedParticipants, Trim(name), NoId)),
                               LAMBDA id : id # NoId))]))
    IN  [e EXCEPT !.title = billData.title,
                  !.participants = importedParticipants,
                  !.items = importedItems,
                  !.alert = "JSON imported"]

----------------------------------------------------------------------------
(* The database: supabase_schema.sql *)

\* variant: the digits after the second decimal are cut off
RoundCents_floor(q) ==
    LET r == Abs(q.num) \div (q.den * 100)
    IN  IF q.num < 0 THEN 0 - r ELSE r

\* a value entering a NUMERIC(p,2) column is rounded half away from zero
RoundCents(q) ==
    LET n == Abs(q.num)
        d == q.den * 100
        r == (2 * n + d) \div (2 * d)
    IN  IF q.num < 0 THEN 0 - r ELSE r

BillIds == {b.id : b \in bills}
ParticipantsOf(billId) == {p \in bill_participants : p.bill_id = billId}
ItemsOf(billId) == {i \in bill_items : i.bill_id = billId}
SplitsOfItems(itemIds) == {s \in split_details : s.bill_item_id \in itemIds}
SplitsOfBill(billId) == SplitsOfItems({i.id : i \in ItemsOf(billId)})

\* UNIQUE(bill_id, name): may `row` enter `table`
ParticipantUniqueOk(table, row) ==
    \A p \in table : p.id # row.id => ~(p.bill_id = row.bill_id /\ p.name = row.name)

\* variant: no uniqueness constraint on split_details
SplitUniqueOk_none(table, row) == TRUE

\* UNIQUE(bill_item_id, participant_id): may `row` enter `table`
SplitUniqueOk(table, row) ==
    \A s \in table :
        ~(s.bill_item_id = row.bill_item_id /\ s.participant_id = row.participant_id)

\* the result of a statement: the table after it, or an error and no change
Done(table) == [ok |-> TRUE, table |-> table]
Failed == [ok |-> FALSE, table |-> {}]

\* rows are inserted one after the other; the statement fails as a whole
RECURSIVE InsertParticipantRows(_, _)
InsertParticipantRows(table, rows) ==
    IF rows = <<>> THEN Done(table)
    ELSE IF Head(rows).bill_id \notin BillIds THEN Failed
    ELSE IF ~ParticipantUniqueOk(table, Head(rows)) THEN Failed
    ELSE InsertParticipantRows(table \cup {Head(rows)}, Tail(rows))

\* upsert(rows, { onConflict: 'id' })
RECURSIVE UpsertParticipantRows(_, _)
UpsertParticipantRows(table, rows) ==
    IF rows = <<>> THEN Done(table)
    ELSE IF Head(rows).bill_id \notin BillIds THEN Failed
    ELSE IF ~ParticipantUniqueOk(table, Head(rows)) THEN Failed
    ELSE UpsertParticipantRows(
             {p \in table : p.id # Head(rows).id} \cup {Head(rows)}, Tail(rows))

\* a split row carries k, the number of rows with its (item, participant) pair
\* present when it was inserted, plus one
RECURSIVE InsertSplitRows(_, _)
InsertSplitRows(table, rows) ==
    IF rows = <<>> THEN Done(table)
    ELSE LET row == Head(rows)
             same == {s \in table : s.bill_item_id = row.bill_item_id
                                    /\ s.participant_id = row.participant_id}
         IN  IF row.bill_item_id \notin {i.id : i \in bill_items} THEN Failed
             ELSE IF row.participant_id \notin {p.id : p \in bill_participants}
             THEN Failed
             ELSE IF ~SplitUniqueOk(table, row) THEN Failed
             ELSE InsertSplitRows(
                      table \cup {[row EXCEPT !.k = Cardinality(same) + 1]},
                      Tail(rows))

\* ON DELETE CASCADE
DeleteParticipants(ids) ==
    /\ bill_participants' = {p \in bill_participants : p.id \notin ids}
    /\ split_details' = {s \in split_details : s.participant_id \notin ids}

\* variant: bill_item_id without ON DELETE CASCADE and without its check
DeleteItems_noCascade(ids) ==
    /\ bill_items' = {i \in bill_items : i.id \notin ids}
    /\ split_details' = split_details

DeleteItems(ids) ==
    /\ bill_items' = {i \in bill_items : i.id \notin ids}
    /\ split_details' = {s \in split_details : s.bill_item_id \notin ids}

\* whether a request may fail for a reason outside the program
Outcomes == IF faulty /\ events < MaxEvents THEN {TRUE, FALSE} ELSE {TRUE}

\* a request that fails for a reason outside the program is an event
Request(ok) == events' = IF ok THEN events ELSE events + 1
NoRequest == UNCHANGED events


----------------------------------------------------------------------------
(* components/BillEditor.tsx: opening the editor *)

RECURSIVE SortItems(_)
\* .order('sort_order')
SortItems(S) ==
    IF S = {} THEN <<>>
    ELSE LET m == CHOOSE r \in S : \A q \in S :
                      \/ r.sort_order < q.sort_order
                      \/ r.sort_order = q.sort_order /\ r.id <= q.id
         IN  <<m>> \o SortItems(S \ {m})

RECURSIVE SplitParticipantIds(_)
\* the participant_id of the split rows of one item, one entry per row
SplitParticipantIds(S) ==
    IF S = {} THEN <<>>
    ELSE LET m == CHOOSE r \in S : \A q \in S :
                      \/ r.participant_id < q.participant_id
                      \/ r.participant_id = q.participant_id /\ r.k <= q.k
         IN  <<m.participant_id>> \o SplitParticipantIds(S \ {m})

\* the SELECT policy of every table, "Anyone can view all ...": USING (true)
AnyoneCanView(uid, row) == TRUE

\* variant: every signed-in user may edit
canEditValue_signedIn(user, bill) == user # NULL

\* only the creator of the bill may edit
canEditValue(user, bill) == user # NULL /\ bill.created_by = user

\* the editor after loadBill has read the bill, or after it has failed
loadBill(e, billId, ok) ==
    LET opened == [BillEditor EXCEPT !.pc = "edit", !.billId = billId,
                                     !.user = e.user, !.canEdit = FALSE,
                                     !.lastRun = e.lastRun]
    IN  IF ~ok \/ billId \notin {b.id : b \in {b \in bills : AnyoneCanView(e.user, b)}}
        THEN [opened EXCEPT !.alert = "load failed"]
        ELSE
        LET bill == CHOOSE b \in bills : b.id = billId
            canEdit == canEditValue(e.user, bill)
            loadedParticipants ==
                Map(SortById(ParticipantsOf(billId)),
                    LAMBDA p : [id |-> p.id, name |-> p.name])
            itemsWithSplits ==
                Map(SortItems(ItemsOf(billId)), LAMBDA item :
                    [id |-> item.id, item_name |-> item.item_name,
                     unit_price |-> item.unit_price,
                     discount_ratio |-> item.discount_ratio,
                     discount_adjustment |-> item.discount_adjustment,
                     participantIds |-> SplitParticipantIds(SplitsOfItems({item.id})),
                     sort_order |-> item.sort_order])
        IN  [opened EXCEPT
                !.title = bill.title,
                !.canEdit = canEdit,
                !.participants = loadedParticipants,
                !.items = itemsWithSplits,
                !.historyState =
                    IF canEdit
                    THEN <<[participants |-> loadedParticipants,
                            items |-> itemsWithSplits]>>
                    ELSE <<>>,
                !.historyIndex = IF canEdit THEN 0 ELSE -1]

Editing(c) == ed[c].pc = "edit" /\ ed[c].canEdit /\ events < MaxEvents

Edit(c, e) ==
    /\ ed' = [ed EXCEPT ![c] = e]
    /\ events' = events + 1
    /\ UNCHANGED <<storage, faulty, calc, summary, participant_payments, session, dashboard>>

OpenNew(c) ==
    /\ ed[c].pc = "closed"
    /\ ed' = [ed EXCEPT ![c] = [BillEditor EXCEPT !.pc = "edit", !.user = ed[c].user,
                                                  !.lastRun = ed[c].lastRun]]
    /\ UNCHANGED <<storage, events, faulty, calc, summary, participant_payments, session, dashboard>>

OpenBill(c) ==
    /\ ed[c].pc = "closed"
    /\ \E billId \in BillIds, ok \in Outcomes :
           /\ Request(ok)
           /\ ed' = [ed EXCEPT ![c] = loadBill(ed[c], billId, ok)]
    /\ UNCHANGED <<storage, faulty, calc, summary, participant_payments, session, dashboard>>

SetTitle(c) ==
    /\ Editing(c)
    /\ \E t \in Titles : t # ed[c].title /\ Edit(c, [ed[c] EXCEPT !.title = t])

AddParticipant(c) ==
    /\ Editing(c)
    /\ \E name \in Names : Edit(c, addParticipant(ed[c], name))

RenameParticipant(c) ==
    /\ Editing(c)
    /\ \E i \in DOMAIN ed[c].participants, name \in Names :
           /\ name # ed[c].participants[i].name
           /\ Edit(c, saveEditingParticipant(ed[c], ed[c].participants[i].id, name))

RemoveParticipant(c) ==
    /\ Editing(c)
    /\ \E i \in DOMAIN ed[c].participants :
           Edit(c, removeParticipant(ed[c], ed[c].participants[i].id))

Undo(c) ==
    /\ Editing(c)
    /\ ed[c].historyIndex > 0
    /\ Edit(c, handleUndo(ed[c]))

AddItem(c) ==
    /\ Editing(c)
    /\ Edit(c, addItem(ed[c]))

UpdateItem(c) ==
    /\ Editing(c)
    /\ \E i \in DOMAIN ed[c].items :
       \E field \in {"item_name", "unit_price", "discount_ratio", "discount_adjustment"} :
       \E value \in (CASE field = "item_name" -> ItemNames
                       [] field = "unit_price" -> Prices
                       [] field = "discount_ratio" -> Ratios
                       [] OTHER -> Adjustments) :
           /\ ed[c].items[i][field] # value
           /\ Edit(c, updateItem(ed[c], ed[c].items[i].id, field, value))

ToggleItemParticipant(c) ==
    /\ Editing(c)
    /\ \E i \in DOMAIN ed[c].items, j \in DOMAIN ed[c].participants :
           Edit(c, toggleItemParticipant(ed[c], ed[c].items[i].id,
                                         ed[c].participants[j].id))

RemoveItem(c) ==
    /\ Editing(c)
    /\ \E i \in DOMAIN ed[c].items : Edit(c, removeItem(ed[c], ed[c].items[i].id))

ImportJSON(c) ==
    /\ Editing(c)
    /\ ed[c].billId = NoId
    /\ \E billData \in ImportDocs : Edit(c, handleImportJSON(ed[c], billData))


----------------------------------------------------------------------------
(* components/BillEditor.tsx: handleSave, one action per storage request *)

\* the rows a batch insert creates: ids in the order of the batch
WithIds(rows, first) == [i \in DOMAIN rows |-> [id |-> first + i - 1] @@ rows[i]]

IdName(rows) == Map(rows, LAMBDA p : [id |-> p.id, name |-> p.name])

\* catch: alert, finally setSaving(false)
Throw(c, e) ==
    /\ ed' = [ed EXCEPT ![c] = [e EXCEPT !.pc = "edit", !.alert = "save failed",
                                         !.clean = FALSE]]
    /\ UNCHANGED <<faulty, calc, summary, participant_payments, session, dashboard>>

Goto(c, e, pc) ==
    /\ ed' = [ed EXCEPT ![c] = [e EXCEPT !.pc = pc]]
    /\ UNCHANGED <<faulty, calc, summary, participant_payments, session, dashboard>>


\* totalAmount += unit_price * discount_ratio + discount_adjustment, for the
\* items that reach the statement
PrepareTotal(kept) ==
    SumRat(Map(kept, LAMBDA item :
        Rat(ItemTotal(item.unit_price, item.discount_ratio, item.discount_adjustment), 1)))

\* variant: no data-entry guard
skipped_never(item_name, unit_price) == FALSE

\* if (!item.item_name.trim() || item.unit_price <= 0) continue
skipped(item_name, unit_price) == Trim(item_name) = <<>> \/ unit_price <= 0

\* the loop over items: itemsToInsert and totalAmount
PrepareItems(e) ==
    LET mapped == [i \in DOMAIN e.items |->
            LET item == e.items[i]
                participantIds ==
                    Filter(Map(item.participantIds, LAMBDA pid :
                               IF \E j \in DOMAIN e.closure : e.closure[j].id = pid
                               THEN LET j == CHOOSE j \in DOMAIN e.closure :
                                            /\ e.closure[j].id = pid
                                            /\ \A k \in 1..(j - 1) : e.closure[k].id # pid
                                    IN  MapGet(e.finalParticipants, e.closure[j].name,
                                               Undefined)
                               ELSE NoId),
                           LAMBDA id : id # NoId)
            IN  [bill_id |-> e.currentBillId,
                 item_name |-> Trim(item.item_name),
                 unit_price |-> item.unit_price,
                 discount_ratio |-> item.discount_ratio,
                 discount_adjustment |-> item.discount_adjustment,
                 sort_order |-> i - 1,
                 participantIds |-> participantIds,
                 shareAmount |-> calculateShareAmount(
                     item.unit_price, Len(participantIds),
                     item.discount_ratio, item.discount_adjustment)]]
        guarded == Filter(mapped, LAMBDA m : ~skipped(m.item_name, m.unit_price))
        kept == Filter(guarded, LAMBDA m : Len(m.participantIds) # 0)
    IN  [itemsToInsert |-> kept, totalAmount |-> PrepareTotal(kept)]

ItemRow(m) ==
    [bill_id |-> m.bill_id, item_name |-> m.item_name, unit_price |-> m.unit_price,
     discount_ratio |-> m.discount_ratio, discount_adjustment |-> m.discount_adjustment,
     sort_order |-> m.sort_order]

\* splitsToInsert, from the inserted rows and itemsToInsert at the same index
PrepareSplits(insertedItems, itemsToInsert) ==
    Flatten([i \in DOMAIN insertedItems |->
        Map(itemsToInsert[i].participantIds, LAMBDA participantId :
            [bill_item_id |-> insertedItems[i].id,
             participant_id |-> participantId,
             share_amount |-> RoundCents(itemsToInsert[i].shareAmount),
             k |-> 1])])

StartSave(c) ==
    LET e == ed[c] IN
    /\ e.pc = "edit"
    /\ e.canEdit
    /\ events < MaxEvents
    /\ events' = events + 1
    /\ IF Trim(e.title) = <<>>
       THEN ed' = [ed EXCEPT ![c].alert = "title required"]
       ELSE IF Len(e.participants) = 0
       THEN ed' = [ed EXCEPT ![c].alert = "participant required"]
       ELSE IF Len(e.items) = 0
       THEN ed' = [ed EXCEPT ![c].alert = "item required"]
       ELSE IF e.user = NULL
       THEN ed' = [ed EXCEPT ![c].alert = "save failed"]
       ELSE ed' = [ed EXCEPT ![c] =
                       [e EXCEPT !.pc = "saveBill", !.closure = e.participants,
                                 !.currentBillId = e.billId,
                                 !.finalParticipants = <<>>, !.currentIds = {},
                                 !.itemIds = {}, !.pending = {},
                                 !.itemsToInsert = <<>>, !.splitsToInsert = <<>>,
                                 !.totalAmount = RatZero, !.clean = TRUE,
                                 !.before = SplitsOfBill(e.billId),
                                 !.stored =
                                     [participants |-> ParticipantsOf(e.billId),
                                      items |-> ItemsOf(e.billId),
                                      total_amount |->
                                          IF e.billId \in BillIds
                                          THEN (CHOOSE b \in bills : b.id = e.billId).total_amount
                                          ELSE 0],
                                 !.alert = NULL, !.lastRun = [done |-> FALSE],
                                 !.batch = <<>>]]
    /\ UNCHANGED <<storage, faulty, calc, summary, participant_payments, session, dashboard>>

\* bills: update of the existing bill, or insert of the new one
SaveBill(c) ==
    LET e == ed[c] IN
    /\ e.pc = "saveBill"
    /\ \E ok \in Outcomes :
        /\ Request(ok)
        /\ IF ~ok THEN Throw(c, e) /\ UNCHANGED storage
           ELSE IF e.billId # NoId
           THEN /\ bills' = {IF b.id = e.billId THEN [b EXCEPT !.title = Trim(e.title)]
                             ELSE b : b \in bills}
                /\ Goto(c, e, "fetchParticipants")
                /\ UNCHANGED <<bill_participants, bill_items, split_details, nextId>>
           ELSE /\ bills' = bills \cup {[id |-> nextId.bills, title |-> Trim(e.title),
                                         created_by |-> e.user, total_amount |-> 0,
                                         bill_date |-> defaultDate, checked |-> FALSE]}
                /\ nextId' = [nextId EXCEPT !.bills = @ + 1]
                /\ Goto(c, [e EXCEPT !.currentBillId = nextId.bills],
                        "insertParticipants")
                /\ UNCHANGED <<bill_participants, bill_items, split_details>>

ParticipantRows(e, ps) ==
    Map(ps, LAMBDA p : [bill_id |-> e.currentBillId, name |-> Trim(p.name)])

\* new bill: insert all participants
InsertParticipants(c) ==
    LET e == ed[c]
        rows == WithIds(ParticipantRows(e, e.closure), nextId.participants)
        r == InsertParticipantRows(bill_participants, rows)
    IN
    /\ e.pc = "insertParticipants"
    /\ \E ok \in Outcomes :
        /\ Request(ok)
        /\ IF ok /\ r.ok
           THEN /\ bill_participants' = r.table
                /\ nextId' = [nextId EXCEPT !.participants = @ + Len(rows)]
                /\ Goto(c, [e EXCEPT !.finalParticipants = IdName(rows),
                                     !.participants = IdName(rows)], "insertItems")
                /\ UNCHANGED <<bills, bill_items, split_details>>
           ELSE Throw(c, e) /\ UNCHANGED storage

\* existing bill, 1: the ids of the stored participants
FetchParticipants(c) ==
    LET e == ed[c] IN
    /\ e.pc = "fetchParticipants"
    /\ \E ok \in Outcomes :
        /\ Request(ok)
        /\ IF ok
           THEN Goto(c, [e EXCEPT !.currentIds =
                            {p.id : p \in ParticipantsOf(e.currentBillId)}],
                     "insertNewParticipants")
           ELSE Throw(c, e)
    /\ UNCHANGED storage

\* existing bill, 2a: insert the participants with a temporary id
InsertNewParticipants(c) ==
    LET e == ed[c]
        newParticipants == Filter(e.closure, LAMBDA p : IsTemp(p.id))
        rows == WithIds(ParticipantRows(e, newParticipants), nextId.participants)
        r == InsertParticipantRows(bill_participants, rows)
    IN
    /\ e.pc = "insertNewParticipants"
    /\ IF Len(newParticipants) = 0
       THEN Goto(c, e, "upsertParticipants") /\ NoRequest /\ UNCHANGED storage
       ELSE \E ok \in Outcomes :
            /\ Request(ok)
            /\ IF ok /\ r.ok
               THEN /\ bill_participants' = r.table
                    /\ nextId' = [nextId EXCEPT !.participants = @ + Len(rows)]
                    /\ Goto(c, [e EXCEPT !.finalParticipants = @ \o IdName(rows)],
                            "upsertParticipants")
                    /\ UNCHANGED <<bills, bill_items, split_details>>
               ELSE Throw(c, e) /\ UNCHANGED storage

\* existing bill, 2b: upsert the participants with a stored id
UpsertParticipants(c) ==
    LET e == ed[c]
        existingParticipants == Filter(e.closure, LAMBDA p : ~IsTemp(p.id))
        rows == [i \in DOMAIN existingParticipants |->
                    [id |-> existingParticipants[i].id, bill_id |-> e.currentBillId,
                     name |-> Trim(existingParticipants[i].name)]]
        r == UpsertParticipantRows(bill_participants, rows)
    IN
    /\ e.pc = "upsertParticipants"
    /\ IF Len(existingParticipants) = 0
       THEN Goto(c, e, "deleteParticipants") /\ NoRequest /\ UNCHANGED storage
       ELSE \E ok \in Outcomes :
            /\ Request(ok)
            /\ IF ok /\ r.ok
               THEN /\ bill_participants' = r.table
                    /\ Goto(c, [e EXCEPT !.finalParticipants = @ \o IdName(rows)],
                            "deleteParticipants")
                    /\ UNCHANGED <<bills, bill_items, split_details, nextId>>
               ELSE Throw(c, e) /\ UNCHANGED storage

\* existing bill, 3: delete the participants removed in the editor
DeleteRemovedParticipants(c) ==
    LET e == ed[c]
        upsertedIds == {e.finalParticipants[i].id : i \in DOMAIN e.finalParticipants}
        toDeleteIds == e.currentIds \ upsertedIds
        next == [e EXCEPT !.participants = e.finalParticipants]
    IN
    /\ e.pc = "deleteParticipants"
    /\ IF toDeleteIds = {}
       THEN Goto(c, next, "fetchItems") /\ NoRequest /\ UNCHANGED storage
       ELSE \E ok \in Outcomes :
            /\ Request(ok)
            /\ IF ok
               THEN /\ DeleteParticipants(toDeleteIds)
                    /\ Goto(c, next, "fetchItems")
                    /\ UNCHANGED <<bills, bill_items, nextId>>
               ELSE Throw(c, e) /\ UNCHANGED storage

\* existing bill: the ids of the stored items; a failed request is not looked at
FetchItems(c) ==
    LET e == ed[c]
        itemIds == {i.id : i \in ItemsOf(e.currentBillId)}
    IN
    /\ e.pc = "fetchItems"
    /\ \E ok \in Outcomes :
        /\ Request(ok)
        /\ IF ok /\ itemIds # {}
           THEN Goto(c, [e EXCEPT !.itemIds = itemIds,
                                  !.pending = {"split_details", "bill_items"}],
                     "deleteItems")
           ELSE Goto(c, [e EXCEPT !.clean = @ /\ ok], "insertItems")
    /\ UNCHANGED storage

\* existing bill: the two deletes sent together; their errors are not looked at
DeleteExisting(c) ==
    LET e == ed[c] IN
    /\ e.pc = "deleteItems"
    /\ \E request \in e.pending, ok \in Outcomes :
        /\ Request(ok)
        /\ IF ~ok THEN UNCHANGED storage
           ELSE IF request = "split_details"
           THEN /\ split_details' = split_details \ SplitsOfItems(e.itemIds)
                /\ UNCHANGED <<bills, bill_participants, bill_items, nextId>>
           ELSE /\ DeleteItems({i.id : i \in ItemsOf(e.currentBillId)})
                /\ UNCHANGED <<bills, bill_participants, nextId>>
        /\ Goto(c, [e EXCEPT !.pending = @ \ {request}, !.clean = @ /\ ok],
                IF e.pending = {request} THEN "insertItems" ELSE "deleteItems")

\* insert of all items
InsertItems(c) ==
    LET e == ed[c]
        prepared == PrepareItems(e)
        rows == WithIds(Map(prepared.itemsToInsert, ItemRow), nextId.items)
        next == [e EXCEPT !.itemsToInsert = prepared.itemsToInsert,
                          !.totalAmount = prepared.totalAmount,
                          !.splitsToInsert = PrepareSplits(rows, prepared.itemsToInsert)]
    IN
    /\ e.pc = "insertItems"
    /\ IF Len(prepared.itemsToInsert) = 0
       THEN Goto(c, next, "updateTotal") /\ NoRequest /\ UNCHANGED storage
       ELSE \E ok \in Outcomes :
            /\ Request(ok)
            /\ IF ok /\ e.currentBillId \in BillIds
               THEN /\ bill_items' = bill_items \cup Range(rows)
                    /\ nextId' = [nextId EXCEPT !.items = @ + Len(rows)]
                    /\ Goto(c, next, "insertSplits")
                    /\ UNCHANGED <<bills, bill_participants, split_details>>
               ELSE Throw(c, next) /\ UNCHANGED storage

\* insert of all split_details
InsertSplits(c) ==
    LET e == ed[c]
        r == InsertSplitRows(split_details, e.splitsToInsert)
    IN
    /\ e.pc = "insertSplits"
    /\ IF Len(e.splitsToInsert) = 0
       THEN Goto(c, e, "updateTotal") /\ NoRequest /\ UNCHANGED storage
       ELSE \E ok \in Outcomes :
            /\ Request(ok)
            /\ IF ok /\ r.ok
               THEN /\ split_details' = r.table
                    /\ Goto(c, e, "updateTotal")
                    /\ UNCHANGED <<bills, bill_participants, bill_items, nextId>>
               ELSE Throw(c, e) /\ UNCHANGED storage

\* update of the bill total, its error not looked at; then the editor is left
UpdateTotal(c) ==
    LET e == ed[c] IN
    /\ e.pc = "updateTotal"
    /\ \E ok \in Outcomes :
        /\ Request(ok)
        /\ IF ok
           THEN bills' = {IF b.id = e.currentBillId
                          THEN [b EXCEPT !.total_amount = RoundCents(e.totalAmount)]
                          ELSE b : b \in bills}
           ELSE UNCHANGED bills
        /\ ed' = [ed EXCEPT ![c] =
                    [BillEditor EXCEPT
                        !.user = e.user,
                        !.lastRun = [done |-> TRUE, clean |-> e.clean /\ ok,
                                     billId |-> e.currentBillId,
                                     existing |-> e.billId # NoId,
                                     before |-> e.before,
                                     participants |-> e.closure,
                                     items |-> e.items,
                                     itemsToInsert |-> e.itemsToInsert,
                                     totalAmount |-> e.totalAmount]]]
    /\ UNCHANGED <<bill_participants, bill_items, split_details, nextId, faulty, calc, summary, participant_payments, session, dashboard>>

----------------------------------------------------------------------------
(* components/BillEditor.tsx: handleBatchSave, one action per storage request *)

\* the documents of a pasted array of more than one bill
BatchDocs == {<<DocTrim, DocQuantity>>, <<DocTwice, DocTrim>>, <<DocNoTitle, DocTwice>>}

\* the loop over billData.items: itemsToInsert and totalAmount of one bill
PrepareBatchItems(billData, currentBillId, insertedParticipants) ==
    LET expanded == Flatten(
            [k \in DOMAIN billData.items |->
                ExpandImportedItem(
                    billData.items[k], k - 1,
                    Filter(Map(billData.items[k].participants, LAMBDA name :
                               MapGet(insertedParticipants, Trim(name), NoId)),
                           LAMBDA id : id # NoId))])
        kept == Renumber(Filter(expanded, LAMBDA m : Len(m.participantIds) # 0))
    IN  [itemsToInsert |->
            Map(kept, LAMBDA m :
                [bill_id |-> currentBillId, item_name |-> m.item_name,
                 unit_price |-> m.unit_price, discount_ratio |-> m.discount_ratio,
                 discount_adjustment |-> m.discount_adjustment,
                 sort_order |-> m.sort_order, participantIds |-> m.participantIds,
                 shareAmount |-> calculateShareAmount(
                     m.unit_price, Len(m.participantIds),
                     m.discount_ratio, m.discount_adjustment)]),
         totalAmount |-> PrepareTotal(kept)]

\* variant: the first bill that fails ends the batch
BatchNext_stopAtFailure(c, e, success) ==
    LET counted == [e EXCEPT
            !.successCount = IF success THEN @ + 1 ELSE @,
            !.failCount = IF success THEN @ ELSE @ + 1,
            !.batch = Append(@, [billData |-> e.billsData[e.index],
                                 billId |-> e.currentBillId,
                                 success |-> success, clean |-> e.clean,
                                 itemsToInsert |-> e.itemsToInsert,
                                 totalAmount |-> e.totalAmount])]
    IN
    /\ ed' = [ed EXCEPT ![c] =
            IF success /\ e.index < Len(e.billsData)
            THEN [counted EXCEPT !.pc = "batchBill", !.index = @ + 1,
                                 !.currentBillId = NoId, !.itemsToInsert = <<>>,
                                 !.splitsToInsert = <<>>, !.totalAmount = RatZero,
                                 !.finalParticipants = <<>>, !.clean = TRUE]
            ELSE [counted EXCEPT !.pc = "edit", !.alert = "import failed"]]
    /\ UNCHANGED <<faulty, calc, summary, participant_payments, session, dashboard>>

\* the bill at e.index is counted; the loop goes on, or the batch ends: with a
\* success the editor is left, without one it stays open
BatchNext(c, e, success) ==
    LET counted == [e EXCEPT
            !.successCount = IF success THEN @ + 1 ELSE @,
            !.failCount = IF success THEN @ ELSE @ + 1,
            !.batch = Append(@, [billData |-> e.billsData[e.index],
                                 billId |-> e.currentBillId,
                                 success |-> success, clean |-> e.clean,
                                 itemsToInsert |-> e.itemsToInsert,
                                 totalAmount |-> e.totalAmount])]
    IN
    /\ ed' = [ed EXCEPT ![c] =
            IF e.index < Len(e.billsData)
            THEN [counted EXCEPT !.pc = "batchBill", !.index = @ + 1,
                                 !.currentBillId = NoId, !.itemsToInsert = <<>>,
                                 !.splitsToInsert = <<>>, !.totalAmount = RatZero,
                                 !.finalParticipants = <<>>, !.clean = TRUE]
            ELSE IF counted.successCount > 0
            THEN [BillEditor EXCEPT !.user = e.user, !.lastRun = e.lastRun,
                                    !.successCount = counted.successCount,
                                    !.failCount = counted.failCount,
                                    !.billsData = e.billsData,
                                    !.batch = counted.batch]
            ELSE [counted EXCEPT !.pc = "edit", !.alert = "import failed"]]
    /\ UNCHANGED <<faulty, calc, summary, participant_payments, session, dashboard>>

\* handleImportJSON with an array of more than one bill
StartBatch(c) ==
    /\ Editing(c)
    /\ ed[c].billId = NoId
    /\ \E billsData \in BatchDocs :
           Edit(c, IF ed[c].user = NULL
                   THEN [ed[c] EXCEPT !.alert = "import failed"]
                   ELSE [ed[c] EXCEPT !.pc = "batchBill", !.billsData = billsData,
                                      !.index = 1, !.successCount = 0,
                                      !.failCount = 0, !.batch = <<>>,
                                      !.currentBillId = NoId,
                                      !.itemsToInsert = <<>>,
                                      !.splitsToInsert = <<>>,
                                      !.totalAmount = RatZero,
                                      !.finalParticipants = <<>>, !.clean = TRUE,
                                      !.alert = NULL])

\* the format check of the bill and the insert of its bills row
BatchBill(c) ==
    LET e == ed[c]
        billData == e.billsData[e.index]
    IN
    /\ e.pc = "batchBill"
    /\ IF billData.title = <<>>
       THEN BatchNext(c, e, FALSE) /\ NoRequest /\ UNCHANGED storage
       ELSE \E ok \in Outcomes :
            /\ Request(ok)
            /\ IF ~ok THEN BatchNext(c, [e EXCEPT !.clean = FALSE], FALSE)
                           /\ UNCHANGED storage
               ELSE /\ bills' = bills \cup
                          {[id |-> nextId.bills, title |-> Trim(billData.title),
                            created_by |-> e.user, total_amount |-> 0,
                            bill_date |-> defaultDate, checked |-> FALSE]}
                    /\ nextId' = [nextId EXCEPT !.bills = @ + 1]
                    /\ Goto(c, [e EXCEPT !.currentBillId = nextId.bills],
                            "batchParticipants")
                    /\ UNCHANGED <<bill_participants, bill_items, split_details>>

\* the insert of the bill's participants; then the loop over its items
BatchParticipants(c) ==
    LET e == ed[c]
        billData == e.billsData[e.index]
        rows == WithIds(Map(billData.participants, LAMBDA name :
                    [bill_id |-> e.currentBillId, name |-> Trim(name)]),
                    nextId.participants)
        r == InsertParticipantRows(bill_participants, rows)
        prepared == PrepareBatchItems(billData, e.currentBillId, IdName(rows))
    IN
    /\ e.pc = "batchParticipants"
    /\ \E ok \in Outcomes :
        /\ Request(ok)
        /\ IF ok /\ r.ok
           THEN /\ bill_participants' = r.table
                /\ nextId' = [nextId EXCEPT !.participants = @ + Len(rows)]
                /\ Goto(c, [e EXCEPT !.finalParticipants = IdName(rows),
                                     !.itemsToInsert = prepared.itemsToInsert,
                                     !.totalAmount = prepared.totalAmount],
                        "batchItems")
                /\ UNCHANGED <<bills, bill_items, split_details>>
           ELSE BatchNext(c, [e EXCEPT !.clean = FALSE], FALSE) /\ UNCHANGED storage

\* the insert of the bill's items; a bill without items to insert is a success
BatchItems(c) ==
    LET e == ed[c]
        rows == WithIds(Map(e.itemsToInsert, ItemRow), nextId.items)
    IN
    /\ e.pc = "batchItems"
    /\ IF Len(e.itemsToInsert) = 0
       THEN BatchNext(c, e, TRUE) /\ NoRequest /\ UNCHANGED storage
       ELSE \E ok \in Outcomes :
            /\ Request(ok)
            /\ IF ok /\ e.currentBillId \in BillIds
               THEN /\ bill_items' = bill_items \cup Range(rows)
                    /\ nextId' = [nextId EXCEPT !.items = @ + Len(rows)]
                    /\ Goto(c, [e EXCEPT !.splitsToInsert =
                                    PrepareSplits(rows, e.itemsToInsert)],
                            "batchSplits")
                    /\ UNCHANGED <<bills, bill_participants, split_details>>
               ELSE BatchNext(c, [e EXCEPT !.clean = FALSE], FALSE)
                    /\ UNCHANGED storage

\* the insert of the bill's split_details
BatchSplits(c) ==
    LET e == ed[c]
        r == InsertSplitRows(split_details, e.splitsToInsert)
    IN
    /\ e.pc = "batchSplits"
    /\ IF Len(e.splitsToInsert) = 0
       THEN Goto(c, e, "batchTotal") /\ NoRequest /\ UNCHANGED storage
       ELSE \E ok \in Outcomes :
            /\ Request(ok)
            /\ IF ok /\ r.ok
               THEN /\ split_details' = r.table
                    /\ Goto(c, e, "batchTotal")
                    /\ UNCHANGED <<bills, bill_participants, bill_items, nextId>>
               ELSE BatchNext(c, [e EXCEPT !.clean = FALSE], FALSE)
                    /\ UNCHANGED storage

\* the update of the bill total, its error not looked at; the bill is a success
BatchTotal(c) ==
    LET e == ed[c] IN
    /\ e.pc = "batchTotal"
    /\ \E ok \in Outcomes :
        /\ Request(ok)
        /\ IF ok
           THEN bills' = {IF b.id = e.currentBillId
                          THEN [b EXCEPT !.total_amount = RoundCents(e.totalAmount)]
                          ELSE b : b \in bills}
           ELSE UNCHANGED bills
        /\ BatchNext(c, [e EXCEPT !.clean = e.clean /\ ok], TRUE)
    /\ UNCHANGED <<bill_participants, bill_items, split_details, nextId>>

----------------------------------------------------------------------------
(* The editor and the database: one client edits and saves; requests may fail *)

\* the Dashboard component as it is mounted: the bill marked by a first click
\* on its delete button, the drag flag of the scrolling list and the bill
\* modal. deleting and toggling hold the requests of handleDeleteBill and
\* handleToggleChecked that are in flight; deleted keeps, for every bill
\* deleted, where loadPaymentSummary stood at that moment; last and before
\* keep the two latest clicks on the list (the target, the bill, the number
\* of the gesture)
Dashboard ==
    [pendingDeleteId |-> NoId, hasDragged |-> FALSE,
     selectedBillId |-> NoId, isModalOpen |-> FALSE,
     deleting |-> {}, toggling |-> {}, alert |-> NULL, deleted |-> {},
     last |-> [kind |-> "none", billId |-> NoId, at |-> 0],
     before |-> [kind |-> "none", billId |-> NoId, at |-> 0]]

\* the PaymentSummary component as it is mounted, before loadPaymentSummary runs
PaymentSummary ==
    [pc |-> "idle", loading |-> TRUE, error |-> NULL, summaries |-> <<>>,
     totalAmount |-> 0, timeoutId |-> FALSE, timedOut |-> FALSE, failed |-> FALSE,
     splitDetails |-> <<>>, itemIds |-> <<>>, participantIds |-> <<>>,
     items |-> <<>>, participants |-> <<>>,
     user |-> NULL, paidAmounts |-> <<>>, paidLoading |-> FALSE,
     requests |-> {}, selectedParticipant |-> <<>>,
     last |-> [handler |-> "none", at |-> 0, guest |-> TRUE]]

NoCalc == [unitPrice |-> 0, shareCount |-> 0, discountRatio |-> 0,
           discountAdjustment |-> 0, applied |-> FALSE, out |-> RatZero]

EmptyStorage ==
    /\ bills = {}
    /\ bill_participants = {}
    /\ bill_items = {}
    /\ split_details = {}
    /\ nextId = [bills |-> 1, participants |-> 1, items |-> 1]

Init ==
    /\ EmptyStorage
    /\ ed = [c \in Clients |-> BillEditor]
    /\ events = 0
    /\ faulty = TRUE
    /\ calc = NoCalc
    /\ summary = PaymentSummary
    /\ participant_payments = {}
    /\ session = NULL
    /\ dashboard = Dashboard

Step(c) ==
    \/ OpenNew(c)
    \/ OpenBill(c)
    \/ SetTitle(c)
    \/ AddParticipant(c)
    \/ RenameParticipant(c)
    \/ RemoveParticipant(c)
    \/ Undo(c)
    \/ AddItem(c)
    \/ UpdateItem(c)
    \/ ToggleItemParticipant(c)
    \/ RemoveItem(c)
    \/ ImportJSON(c)
    \/ StartBatch(c)
    \/ BatchBill(c)
    \/ BatchParticipants(c)
    \/ BatchItems(c)
    \/ BatchSplits(c)
    \/ BatchTotal(c)
    \/ StartSave(c)
    \/ SaveBill(c)
    \/ InsertParticipants(c)
    \/ FetchParticipants(c)
    \/ InsertNewParticipants(c)
    \/ UpsertParticipants(c)
    \/ DeleteRemovedParticipants(c)
    \/ FetchItems(c)
    \/ DeleteExisting(c)
    \/ InsertItems(c)
    \/ InsertSplits(c)
    \/ UpdateTotal(c)

Next == Step(1)

Spec == Init /\ [][Next]_vars

----------------------------------------------------------------------------
(* The share calculator applied to one input *)

CalcPrices == {0, 101, 10000}
CalcCounts == 0..3
CalcRatios == {50, 90, 100}
CalcAdjustments == {-20000, -50, 0, 500}

InitCalc ==
    /\ EmptyStorage
    /\ ed = [c \in Clients |-> BillEditor]
    /\ events = 0
    /\ faulty = FALSE
    /\ \E p \in CalcPrices, n \in CalcCounts, r \in CalcRatios, a \in CalcAdjustments :
           calc = [unitPrice |-> p, shareCount |-> n, discountRatio |-> r,
                   discountAdjustment |-> a, applied |-> FALSE, out |-> RatZero]
    /\ summary = PaymentSummary
    /\ participant_payments = {}
    /\ session = NULL
    /\ dashboard = Dashboard

Calculate ==
    /\ ~calc.applied
    /\ calc' = [calc EXCEPT !.applied = TRUE,
                            !.out = calculateShareAmount(
                                calc.unitPrice, calc.shareCount,
                                calc.discountRatio, calc.discountAdjustment)]
    /\ UNCHANGED <<storage, ed, events, faulty, summary, participant_payments, session, dashboard>>

NextCalc == Calculate

SpecCalc == InitCalc /\ [][NextCalc]_vars


----------------------------------------------------------------------------
(* Properties of the share calculator (SpecCalc) *)

CalcExact == calc.unitPrice * calc.discountRatio + 100 * calc.discountAdjustment

\* C1: calculateShareAmount returns 0 when shareCount = 0, whatever the other
\* arguments, and otherwise (unitPrice * discountRatio + discountAdjustment) /
\* shareCount, also when that value is negative: no error, no clamping.
C1_ShareAmount ==
    calc.applied =>
        /\ calc.shareCount = 0 => calc.out = RatZero
        /\ calc.shareCount # 0 =>
              /\ calc.out.den > 0
              /\ calc.out.num * calc.shareCount = CalcExact * calc.out.den

\* a negative share has been computed
C1_Witness ==
    calc.applied /\ calc.shareCount > 1 /\ calc.out.num < 0

\* the value the README's formula gives: (unitPrice / shareCount) * ratio + adjustment
ReadmeValue ==
    Rat(calc.unitPrice * calc.discountRatio
            + 100 * calc.discountAdjustment * calc.shareCount,
        calc.shareCount)

ReadmeExample ==
    /\ calc.unitPrice = 10000
    /\ calc.shareCount = 2
    /\ calc.discountRatio = 90
    /\ calc.discountAdjustment = 500

----------------------------------------------------------------------------
(* Properties of saving a bill (Spec) *)

RECURSIVE SumShares(_)
\* the sum of share_amount over a set of split rows, in cents
SumShares(S) ==
    IF S = {} THEN 0
    ELSE LET s == CHOOSE x \in S : TRUE
         IN  s.share_amount + SumShares(S \ {s})

\* handleSave runs that went to their end with every request succeeding
CleanRuns == {ed[c].lastRun : c \in {c \in Clients : ed[c].lastRun.done
                                                    /\ ed[c].lastRun.clean}}

BillRow(billId) == CHOOSE b \in bills : b.id = billId

\* the editor's items that pass the data-entry guard
Guarded(items) ==
    Filter(items, LAMBDA item : ~(Trim(item.item_name) = <<>> \/ item.unit_price <= 0))

\* C2 as stated: after a successful handleSave the stored total_amount is the
\* sum of unit_price * discount_ratio + discount_adjustment over all items of
\* the bill, those without an assigned participant included.
C2_TotalOverAllItems ==
    \A r \in CleanRuns :
        r.billId \in BillIds =>
            BillRow(r.billId).total_amount =
                RoundCents(SumRat(Map(Guarded(r.items), LAMBDA item :
                    Rat(ItemTotal(item.unit_price, item.discount_ratio,
                                  item.discount_adjustment), 1))))

\* the names of the participants the editor's item is assigned to
AssignedNames(r, item) ==
    {r.participants[j].name : j \in {j \in DOMAIN r.participants :
                                        r.participants[j].id \in Range(item.participantIds)}}

\* the bills of a handleBatchSave that were counted as a success, with every
\* request succeeding
CleanImports ==
    UNION {{ed[c].batch[i] : i \in {i \in DOMAIN ed[c].batch :
                                       ed[c].batch[i].success /\ ed[c].batch[i].clean}}
           : c \in Clients}

\* for a pasted bill, the names assigned to each item that is to be stored, in
\* the order of the items: an item of quantity q counts q times, an item that
\* names none of the bill's participants is not stored
ImportedAssignments(billData) ==
    LET known == {Trim(billData.participants[i]) : i \in DOMAIN billData.participants}
        names(k) == {Trim(billData.items[k].participants[j]) :
                        j \in DOMAIN billData.items[k].participants} \cap known
    IN  Filter(Flatten([k \in DOMAIN billData.items |->
                           [i \in 1..OrElse(billData.items[k].quantity, 1) |-> names(k)]]),
               LAMBDA S : S # {})

\* C4: after a successful save or import, the split rows of every stored item
\* of the bill are one row for each participant assigned to the item (in the
\* editor, or in the imported document) and no others, and no (item,
\* participant) pair has two rows.
C4_SharesCoverAssigned ==
    /\ \A r \in CleanRuns :
        \A it \in ItemsOf(r.billId) :
            LET rows == SplitsOfItems({it.id})
                item == r.items[it.sort_order + 1]
                assigned == {p.id : p \in {p \in ParticipantsOf(r.billId) :
                                              p.name \in AssignedNames(r, item)}}
            IN  /\ it.sort_order + 1 \in DOMAIN r.items
                /\ {s.participant_id : s \in rows} = assigned
                /\ Cardinality(rows) = Cardinality(assigned)
                /\ \A s \in rows : s.k = 1
    /\ \A imp \in CleanImports :
        LET expected == ImportedAssignments(imp.billData) IN
        /\ Cardinality(ItemsOf(imp.billId)) = Len(expected)
        /\ \A it \in ItemsOf(imp.billId) :
            LET rows == SplitsOfItems({it.id})
                assigned == {p.id : p \in {p \in ParticipantsOf(imp.billId) :
                                              p.name \in expected[it.sort_order + 1]}}
            IN  /\ it.sort_order + 1 \in DOMAIN expected
                /\ {s.participant_id : s \in rows} = assigned
                /\ Cardinality(rows) = Cardinality(expected[it.sort_order + 1])
                /\ \A s \in rows : s.k = 1

\* a saved item that two participants share
C4_Witness ==
    \E r \in CleanRuns : \E it \in ItemsOf(r.billId) :
        Cardinality(SplitsOfItems({it.id})) = 2

\* C5 as stated: saving an existing bill replaces its split rows atomically:
\* after the save none of the old rows remains and none is doubled, and while
\* the save runs no state has the old rows gone and the new ones not yet there.
C5_AtomicReplace ==
    /\ \A r \in CleanRuns :
          r.existing => /\ SplitsOfBill(r.billId) \cap r.before = {}
                        /\ \A s \in SplitsOfBill(r.billId) : s.k = 1
    /\ \A c \in Clients :
          LET e == ed[c] IN
          (/\ e.pc \in {"deleteItems", "insertItems", "insertSplits"}
           /\ e.billId # NoId
           /\ e.clean
           /\ e.before # {}
           /\ Len(PrepareItems(e).itemsToInsert) > 0)
          => SplitsOfBill(e.billId) # {}

SavedBills == {r.billId : r \in CleanRuns} \cup {imp.billId : imp \in CleanImports}

C9_ParticipantTotals ==
    \A c \in Clients :
        LET e == ed[c]
            totals == calculateParticipantTotals(e.participants, e.items)
        IN  /\ Len(totals) = Len(e.participants)
            /\ \A i \in DOMAIN totals :
                  /\ totals[i].participantId = e.participants[i].id
                  /\ totals[i].total =
                        SumRat(Map(Filter(e.items, LAMBDA item :
                                       e.participants[i].id \in Range(item.participantIds)),
                                   LAMBDA item : calculateShareAmount(
                                       item.unit_price, Len(item.participantIds),
                                       item.discount_ratio, item.discount_adjustment)))


----------------------------------------------------------------------------
(* Two clients have the same stored bill open and save it (SpecConc) *)

\* the bill a save of participants A and B sharing one item of 1.01 leaves
SharedBill ==
    /\ bills = {[id |-> 1, title |-> <<"T">>, created_by |-> Owner,
                 total_amount |-> 101, bill_date |-> defaultDate, checked |-> FALSE]}
    /\ bill_participants = {[id |-> 1, bill_id |-> 1, name |-> <<"A">>],
                            [id |-> 2, bill_id |-> 1, name |-> <<"B">>]}
    /\ bill_items = {[id |-> 1, bill_id |-> 1, item_name |-> <<"t", "e", "a">>,
                      unit_price |-> 101, discount_ratio |-> 100,
                      discount_adjustment |-> 0, sort_order |-> 0]}
    /\ split_details = {[bill_item_id |-> 1, participant_id |-> 1,
                         share_amount |-> 51, k |-> 1],
                        [bill_item_id |-> 1, participant_id |-> 2,
                         share_amount |-> 51, k |-> 1]}
    /\ nextId = [bills |-> 2, participants |-> 3, items |-> 2]

InitConc ==
    /\ SharedBill
    /\ ed = [c \in Clients |-> loadBill(BillEditor, 1, TRUE)]
    /\ events = 0
    /\ faulty = FALSE
    /\ calc = NoCalc
    /\ summary = PaymentSummary
    /\ participant_payments = {}
    /\ session = NULL
    /\ dashboard = Dashboard

ConcStep(c) ==
    \/ ToggleItemParticipant(c)
    \/ UpdateItem(c)
    \/ StartSave(c)
    \/ SaveBill(c)
    \/ FetchParticipants(c)
    \/ InsertNewParticipants(c)
    \/ UpsertParticipants(c)
    \/ DeleteRemovedParticipants(c)
    \/ FetchItems(c)
    \/ DeleteExisting(c)
    \/ InsertItems(c)
    \/ InsertSplits(c)
    \/ UpdateTotal(c)

NextConc == \E c \in Clients : ConcStep(c)

SpecConc == InitConc /\ [][NextConc]_vars

\* what is stored of a bill, without the ids of the item rows
StoredItems(billId) ==
    {[item_name |-> it.item_name, unit_price |-> it.unit_price,
      discount_ratio |-> it.discount_ratio,
      discount_adjustment |-> it.discount_adjustment,
      sort_order |-> it.sort_order,
      shares |-> {<<s.participant_id, s.share_amount>> : s \in SplitsOfItems({it.id})}]
     : it \in ItemsOf(billId)}

\* what a handleSave run writes when it runs alone
WrittenItems(r) ==
    {[item_name |-> m.item_name, unit_price |-> m.unit_price,
      discount_ratio |-> m.discount_ratio,
      discount_adjustment |-> m.discount_adjustment,
      sort_order |-> m.sort_order,
      shares |-> {<<m.participantIds[j], RoundCents(m.shareAmount)>> :
                     j \in DOMAIN m.participantIds}]
     : m \in Range(r.itemsToInsert)}

\* C6 as stated: when two handleSave runs for the same bill have both
\* finished, the bill's stored items, split rows and total_amount are what one
\* of the two runs alone would have written, never a union or a mixture.
C6_LastWriteWins ==
    (\A c \in Clients : ed[c].lastRun.done /\ ed[c].lastRun.billId = 1) =>
        \E c \in Clients :
            LET r == ed[c].lastRun IN
            /\ StoredItems(1) = WrittenItems(r)
            /\ Cardinality(ItemsOf(1)) = Len(r.itemsToInsert)
            /\ BillRow(1).total_amount = RoundCents(r.totalAmount)


----------------------------------------------------------------------------
(* components/PaymentSummary.tsx: loadPaymentSummary, its pure parts *)

\* the uuidRegex test of a fetched id: null, '' and other strings fail it;
\* ids the tables hand out are positive, everything else stands for a
\* value that is not a uuid
IsUuid(id) == id > 0

RECURSIVE Distinct(_)
\* [...new Set(s)]: the first occurrence of every value, in order
Distinct(s) ==
    IF s = <<>> THEN <<>>
    ELSE LET rest == Distinct(SubSeq(s, 1, Len(s) - 1))
             last == s[Len(s)]
         IN  IF last \in Range(rest) THEN rest ELSE Append(rest, last)

BatchSize == 100

RECURSIVE batchQuery(_, _, _)
\* the rows of a table whose id is in ids, asked for BatchSize ids at a time
batchQuery(table, ids, from) ==
    IF from > Len(ids) THEN <<>>
    ELSE LET to    == IF from + BatchSize - 1 < Len(ids) THEN from + BatchSize - 1
                      ELSE Len(ids)
             batch == {ids[i] : i \in from..to}
         IN  SortById({r \in table : r.id \in batch}) \o batchQuery(table, ids, to + 1)

NoRow == [id |-> NoId]

\* new Map(rows.map(r => [r.id, r])).get(id)
MapGetRow(rows, id) ==
    LET hits == {i \in DOMAIN rows : rows[i].id = id}
    IN  IF hits = {} THEN NoRow
        ELSE rows[CHOOSE i \in hits : \A j \in hits : j <= i]

participantName_folded(participant) ==
    [i \in DOMAIN participant.name |->
        IF participant.name[i] = "A" THEN "a"
        ELSE IF participant.name[i] = "B" THEN "b" ELSE participant.name[i]]

participantName(participant) == participant.name

\* the end of the forEach body: add the share to the summary of the name
addShare(acc, split, participant, item, bill) ==
    LET name   == participantName(participant)
        detail == [billId |-> bill.id, billTitle |-> bill.title,
                   billDate |-> bill.bill_date,
                   itemName |-> item.item_name, itemId |-> item.id,
                   shareAmount |-> split.share_amount]
        at     == {i \in DOMAIN acc : acc[i].participantName = name}
    IN  IF at = {}
        THEN Append(acc, [participantName |-> name,
                          totalAmount |-> split.share_amount,
                          details |-> <<detail>>])
        ELSE [i \in DOMAIN acc |->
                IF i \in at
                THEN [acc[i] EXCEPT !.totalAmount = @ + split.share_amount,
                                    !.details = Append(@, detail)]
                ELSE acc[i]]

groupSplit_abort(acc, split, participants, items, billRows) ==
    LET participant == MapGetRow(participants, split.participant_id)
        item        == MapGetRow(items, split.bill_item_id)
    IN  IF participant = NoRow \/ item = NoRow THEN <<>>
        ELSE IF MapGetRow(billRows, item.bill_id) = NoRow THEN <<>>
        ELSE addShare(acc, split, participant, item, MapGetRow(billRows, item.bill_id))

\* the body of splitDetails.forEach: acc is the participantMap so far, in
\* insertion order
groupSplit(acc, split, participants, items, billRows) ==
    LET participant == MapGetRow(participants, split.participant_id)
        item        == MapGetRow(items, split.bill_item_id)
    IN  IF participant = NoRow THEN acc
        ELSE IF item = NoRow THEN acc
        ELSE LET bill == MapGetRow(billRows, item.bill_id) IN
             IF bill = NoRow THEN acc
             ELSE addShare(acc, split, participant, item, bill)

RECURSIVE groupSplits(_, _, _, _)
groupSplits(splitDetails, participants, items, billRows) ==
    IF splitDetails = <<>> THEN <<>>
    ELSE groupSplit(groupSplits(SubSeq(splitDetails, 1, Len(splitDetails) - 1),
                                participants, items, billRows),
                    splitDetails[Len(splitDetails)], participants, items, billRows)


IsDigit(ch) == ch \in Range(DigitChars)

DigitValue(ch) == (CHOOSE i \in DOMAIN DigitChars : DigitChars[i] = ch) - 1

RECURSIVE parseInt(_)
\* parseInt of a string of digits, base 10
parseInt(digits) ==
    IF digits = <<>> THEN 0
    ELSE 10 * parseInt(SubSeq(digits, 1, Len(digits) - 1)) + DigitValue(digits[Len(digits)])

RECURSIVE DigitRun(_, _)
\* the digits of str from position i on, up to the first character that is none
DigitRun(str, i) ==
    IF i > Len(str) \/ ~IsDigit(str[i]) THEN <<>>
    ELSE <<str[i]>> \o DigitRun(str, i + 1)

RECURSIVE SkipSpaces(_, _)
SkipSpaces(str, i) ==
    IF i <= Len(str) /\ str[i] = " " THEN SkipSpaces(str, i + 1) ELSE i

Infinity == 0 - 1

getFirstNumber(str) ==
    LET lead  == DigitRun(str, 1)
        after == SkipSpaces(str, Len(lead) + 1)
        first == {i \in DOMAIN str : IsDigit(str[i])}
    IN  IF lead # <<>> /\ after <= Len(str) /\ str[after] = "-"    \* /^(\d+)\s*-/
        THEN parseInt(lead)
        ELSE IF first # {}                                          \* /\d+/
        THEN parseInt(DigitRun(str, CHOOSE i \in first : \A j \in first : i <= j))
        ELSE Infinity

RECURSIVE LexCompare(_, _)
LexCompare(x, y) ==
    IF x = <<>> /\ y = <<>> THEN 0
    ELSE IF x = <<>> THEN 0 - 1
    ELSE IF y = <<>> THEN 1
    ELSE IF Head(x) < Head(y) THEN 0 - 1
    ELSE IF Head(x) > Head(y) THEN 1
    ELSE LexCompare(Tail(x), Tail(y))

\* the collation of the characters the names are made of: space, punctuation,
\* digits, letters; a lower-case letter before its upper-case letter
CollationOrder == <<" ", "-", "0", "1", "2", "3", "4", "5", "6", "7", "8", "9", "a", "b", "t", "e">>
LowerCase(ch) == IF ch = "A" THEN "a" ELSE IF ch = "B" THEN "b" ELSE IF ch = "T" THEN "t" ELSE ch
PrimaryWeight(ch) == CHOOSE i \in DOMAIN CollationOrder : CollationOrder[i] = LowerCase(ch)
TertiaryWeight(ch) == IF LowerCase(ch) = ch THEN 0 ELSE 1

\* String.prototype.localeCompare(other, 'zh-TW')
localeCompare(a, b) ==
    LET primary == LexCompare([i \in DOMAIN a |-> PrimaryWeight(a[i])],
                              [i \in DOMAIN b |-> PrimaryWeight(b[i])])
    IN  IF primary # 0 THEN primary
        ELSE LexCompare([i \in DOMAIN a |-> TertiaryWeight(a[i])],
                        [i \in DOMAIN b |-> TertiaryWeight(b[i])])

\* variant: the names are compared as strings only
compareSummaries_byName(a, b) == localeCompare(a.participantName, b.participantName)

\* the comparator given to sort: negative, zero or positive
compareSummaries(a, b) ==
    LET numA == getFirstNumber(a.participantName)
        numB == getFirstNumber(b.participantName)
    IN  IF numA # Infinity /\ numB # Infinity
        THEN IF numA - numB # 0 THEN numA - numB
             ELSE localeCompare(a.participantName, b.participantName)
        ELSE IF numA # Infinity THEN 0 - 1
        ELSE IF numB # Infinity THEN 1
        ELSE localeCompare(a.participantName, b.participantName)

\* insert x into the sorted sequence s after the elements that are not after it
InsertSorted(s, x) ==
    LET before == {i \in DOMAIN s : compareSummaries(s[i], x) <= 0}
        k      == IF before = {} THEN 0 ELSE CHOOSE i \in before : \A j \in before : j <= i
    IN  SubSeq(s, 1, k) \o <<x>> \o SubSeq(s, k + 1, Len(s))

RECURSIVE sortSummaries(_)
\* Array.prototype.sort with compareSummaries (a stable sort)
sortSummaries(s) ==
    IF s = <<>> THEN <<>>
    ELSE InsertSorted(sortSummaries(SubSeq(s, 1, Len(s) - 1)), s[Len(s)])

RECURSIVE SumTotals(_)
\* summariesArray.reduce((sum, s) => sum + s.totalAmount, 0)
SumTotals(s) == IF s = <<>> THEN 0 ELSE SumTotals(SubSeq(s, 1, Len(s) - 1)) + s[Len(s)].totalAmount


----------------------------------------------------------------------------
(* components/PaymentSummary.tsx: loadPaymentSummary, request by request *)

\* the component's state after the catch block and the finally block
SummaryFailed(message) ==
    [summary EXCEPT !.pc = "done", !.error = message, !.summaries = <<>>,
                    !.totalAmount = 0, !.loading = FALSE, !.timeoutId = FALSE,
                    !.failed = TRUE]

\* the early returns: nothing to show, the error is left as it is
SummaryEmpty(splitDetails) ==
    [summary EXCEPT !.pc = "done", !.summaries = <<>>, !.totalAmount = 0,
                    !.loading = FALSE, !.timeoutId = FALSE,
                    !.splitDetails = splitDetails]

\* useEffect on mount: setLoading(true), setError(null), the timer is started
LoadStart ==
    /\ summary.pc = "idle"
    /\ summary' = [summary EXCEPT !.pc = "splits", !.loading = TRUE,
                                  !.error = NULL, !.timeoutId = TRUE]
    /\ UNCHANGED <<storage, ed, events, faulty, calc, participant_payments, session, dashboard>>

\* the timer fires while the first query is still running
LoadTimeout ==
    /\ summary.pc = "splits"
    /\ summary.timeoutId
    /\ summary' = [summary EXCEPT !.error = "timeout", !.loading = FALSE,
                                  !.timeoutId = FALSE, !.timedOut = TRUE]
    /\ UNCHANGED <<storage, ed, events, faulty, calc, participant_payments, session, dashboard>>

\* the sequences that hold every element of S once
Orders(S) ==
    {f \in [1..Cardinality(S) -> S] : \A i, j \in 1..Cardinality(S) : f[i] = f[j] => i = j}

\* select from split_details, the ids of its rows filtered, the early returns
FetchSplits ==
    /\ summary.pc = "splits"
    /\ \E ok \in Outcomes, splitDetails \in Orders(split_details) :
        /\ Request(ok)
        /\ LET itemIds == Filter(Distinct([i \in DOMAIN splitDetails |->
                                              splitDetails[i].bill_item_id]), IsUuid)
               participantIds == Filter(Distinct([i \in DOMAIN splitDetails |->
                                              splitDetails[i].participant_id]), IsUuid)
           IN  summary' =
                 IF ~ok THEN SummaryFailed("query")
                 ELSE IF Len(splitDetails) = 0 THEN SummaryEmpty(splitDetails)
                 ELSE IF Len(itemIds) = 0 \/ Len(participantIds) = 0
                      THEN SummaryEmpty(splitDetails)
                 ELSE [summary EXCEPT !.pc = "rows", !.timeoutId = FALSE,
                                      !.splitDetails = splitDetails,
                                      !.itemIds = itemIds,
                                      !.participantIds = participantIds]
    /\ UNCHANGED <<storage, ed, faulty, calc, participant_payments, session, dashboard>>

\* variant: the error of the participants' query is not looked at
queryFailed_itemsOnly(okItems, okParticipants) == ~okItems

\* if (itemsResult.error) throw ...; if (participantsResult.error) throw ...
queryFailed(okItems, okParticipants) == ~okItems \/ ~okParticipants

\* Promise.all of the two batch queries for the items and the participants;
\* a query that fails gives no rows
FetchItemsAndParticipants ==
    /\ summary.pc = "rows"
    /\ \E okItems \in Outcomes, okParticipants \in Outcomes :
        /\ Request(okItems /\ okParticipants)
        /\ summary' =
             IF queryFailed(okItems, okParticipants) THEN SummaryFailed("query")
             ELSE [summary EXCEPT
                     !.pc = "bills",
                     !.items = IF okItems
                               THEN batchQuery(bill_items, summary.itemIds, 1)
                               ELSE <<>>,
                     !.participants = IF okParticipants
                                      THEN batchQuery(bill_participants,
                                                      summary.participantIds, 1)
                                      ELSE <<>>]
    /\ UNCHANGED <<storage, ed, faulty, calc, participant_payments, session, dashboard>>

\* the bills of the items, then the grouping by name, the sort and the totals
FetchBillsAndGroup ==
    /\ summary.pc = "bills"
    /\ LET billIds == Distinct([i \in DOMAIN summary.items |-> summary.items[i].bill_id])
       IN  \E ok \in (IF Len(billIds) > 0 THEN Outcomes ELSE {TRUE}) :
            /\ Request(ok)
            /\ summary' =
                 IF ~ok THEN SummaryFailed("query")
                 ELSE LET billRows == batchQuery(bills, billIds, 1)
                          summariesArray ==
                              sortSummaries(groupSplits(summary.splitDetails,
                                  summary.participants, summary.items, billRows))
                      IN  [summary EXCEPT !.pc = "done", !.loading = FALSE,
                                          !.error = NULL,
                                          !.summaries = summariesArray,
                                          !.totalAmount = SumTotals(summariesArray)]
    /\ UNCHANGED <<storage, ed, faulty, calc, participant_payments, session, dashboard>>


----------------------------------------------------------------------------
(* What a client can see of the tables when the summary is loaded (SpecSummary):
   rows of two bills, some of them hidden from the client or deleted between
   two requests, and split rows with ids that are not uuids *)

MaxSplits == 3

SeenBills ==
    {[id |-> 1, title |-> <<"T">>, created_by |-> Owner, total_amount |-> 35,
      bill_date |-> <<2025, 2, 3>>, checked |-> FALSE],
     [id |-> 2, title |-> <<"T">>, created_by |-> Owner, total_amount |-> 27,
      bill_date |-> <<2025, 2, 4>>, checked |-> FALSE]}

SeenParticipants ==
    {[id |-> 1, bill_id |-> 1, name |-> <<"A">>],
     [id |-> 2, bill_id |-> 2, name |-> <<"A">>],
     [id |-> 3, bill_id |-> 1, name |-> <<"a">>],
     [id |-> 4, bill_id |-> 2, name |-> <<"2", "-", "B">>]}

SeenItems ==
    {[id |-> 1, bill_id |-> 1, item_name |-> <<"t", "e", "a">>, unit_price |-> 35,
      discount_ratio |-> 100, discount_adjustment |-> 0, sort_order |-> 0],
     [id |-> 2, bill_id |-> 2, item_name |-> <<"t", "e", "a">>, unit_price |-> 27,
      discount_ratio |-> 100, discount_adjustment |-> 0, sort_order |-> 0]}

NotAUuid == 0 - 1

SeenSplits ==
    {[bill_item_id |-> 1, participant_id |-> 1, share_amount |-> 30, k |-> 1],
     [bill_item_id |-> 2, participant_id |-> 2, share_amount |-> 20, k |-> 1],
     [bill_item_id |-> 1, participant_id |-> 3, share_amount |-> 5, k |-> 1],
     [bill_item_id |-> 2, participant_id |-> 4, share_amount |-> 7, k |-> 1],
     [bill_item_id |-> NoId, participant_id |-> 1, share_amount |-> 9, k |-> 1],
     [bill_item_id |-> 1, participant_id |-> NotAUuid, share_amount |-> 11, k |-> 1]}

\* a table with at most one of its rows missing
OneMissing(S) == {S} \cup {S \ {r} : r \in S}

InitSummary ==
    /\ bills \in OneMissing(SeenBills)
    /\ bill_participants \in OneMissing(SeenParticipants)
    /\ bill_items \in OneMissing(SeenItems)
    /\ split_details \in {S \in SUBSET SeenSplits : Cardinality(S) <= MaxSplits}
    /\ nextId = [bills |-> 3, participants |-> 5, items |-> 3]
    /\ ed = [c \in Clients |-> BillEditor]
    /\ events = 0
    /\ faulty = TRUE
    /\ calc = NoCalc
    /\ summary = PaymentSummary
    /\ participant_payments = {}
    /\ session = NULL
    /\ dashboard = Dashboard

NextSummary ==
    \/ LoadStart
    \/ LoadTimeout
    \/ FetchSplits
    \/ FetchItemsAndParticipants
    \/ FetchBillsAndGroup

SpecSummary == InitSummary /\ [][NextSummary]_vars

\* the split rows whose participant, item and bill the client can see
Resolvable(s) ==
    /\ \E p \in bill_participants : p.id = s.participant_id
    /\ \E it \in bill_items :
          /\ it.id = s.bill_item_id
          /\ \E b \in bills : b.id = it.bill_id

\* the resolvable split rows of the participants with exactly this name
SplitsOfName(name) ==
    {s \in split_details :
        /\ Resolvable(s)
        /\ \E p \in bill_participants : p.id = s.participant_id /\ p.name = name}

SummaryNames == {p.name : p \in SeenParticipants} \cup {<<"b">>, <<"2", "-", "b">>}

LoadSucceeded == summary.pc = "done" /\ ~summary.failed

\* C3: after loadPaymentSummary, every name with share rows has exactly one
\* summary, whose totalAmount is the sum of share_amount over the (resolvable)
\* share rows whose participant has exactly that name, whatever bill they are
\* of; a name without such rows has no summary, so that names differing in
\* case only are never merged.
C3_TotalsByExactName ==
    LoadSucceeded =>
        \A name \in SummaryNames :
            LET at == {i \in DOMAIN summary.summaries :
                          summary.summaries[i].participantName = name}
            IN  IF SplitsOfName(name) = {} THEN at = {}
                ELSE /\ Cardinality(at) = 1
                     /\ \A i \in at : summary.summaries[i].totalAmount
                                         = SumShares(SplitsOfName(name))

\* the same name in two bills merged into one summary next to a summary of a
\* name that differs in case only
C3_Witness ==
    /\ LoadSucceeded
    /\ \E i, j \in DOMAIN summary.summaries :
          /\ summary.summaries[i].participantName = <<"A">>
          /\ summary.summaries[i].totalAmount = 50
          /\ Len(summary.summaries[i].details) = 2
          /\ summary.summaries[j].participantName = <<"a">>
          /\ summary.summaries[j].totalAmount = 5

\* C10: a share row whose participant, item or bill cannot be resolved is
\* skipped without an error, and the summaries, their details and the total
\* are those of the resolvable rows alone.
C10_UnresolvableSkipped ==
    LoadSucceeded =>
        LET resolvable == Filter(summary.splitDetails, Resolvable)
            alone == sortSummaries(groupSplits(resolvable,
                         SortById(bill_participants), SortById(bill_items),
                         SortById(bills)))
        IN  /\ summary.summaries = alone
            /\ summary.totalAmount = SumShares(Range(resolvable))
            /\ ~summary.timedOut => summary.error = NULL

\* resolvable and unresolvable rows were fetched together
C10_Witness ==
    /\ LoadSucceeded
    /\ summary.summaries # <<>>
    /\ \E i \in DOMAIN summary.splitDetails : ~Resolvable(summary.splitDetails[i])
    /\ \E i \in DOMAIN summary.splitDetails : ~IsUuid(summary.splitDetails[i].bill_item_id)

----------------------------------------------------------------------------
(* components/PaymentSummary.tsx: the paid amounts (SpecPaid) *)

NaN == 0 - 2000000

\* the digits of a number of cents: whole part and two decimals
CentDigits(cents) ==
    [whole |-> NumToString(Abs(cents) \div 100),
     d1    |-> DigitChars[((Abs(cents) % 100) \div 10) + 1],
     d2    |-> DigitChars[(Abs(cents) % 10) + 1],
     sign  |-> IF cents < 0 THEN <<"-">> ELSE <<>>]

\* Number.prototype.toString of cents/100: no trailing zeros
toString(cents) ==
    LET d == CentDigits(cents)
    IN  d.sign \o d.whole \o
        (IF Abs(cents) % 100 = 0 THEN <<>>
         ELSE IF Abs(cents) % 10 = 0 THEN <<".", d.d1>>
         ELSE <<".", d.d1, d.d2>>)

\* Number.prototype.toFixed(2) of cents/100
toFixed(cents) ==
    LET d == CentDigits(cents)
    IN  d.sign \o d.whole \o <<".", d.d1, d.d2>>

\* parseFloat, in cents: sign, digits, point, digits; what follows is ignored.
\* Decimals after the second are dropped: no string the component parses has
\* more (the pattern of handlePaidChange, toFixed(2), NUMERIC(12,2)).
parseFloat(str) ==
    LET first == SkipSpaces(str, 1)
        start == IF first <= Len(str) /\ str[first] \in {"-", "+"}
                 THEN first + 1 ELSE first
        whole == DigitRun(str, start)
        dot   == start + Len(whole)
        frac  == IF dot <= Len(str) /\ str[dot] = "." THEN DigitRun(str, dot + 1)
                 ELSE <<>>
        cents == 100 * parseInt(whole) + parseInt(SubSeq(frac \o <<"0", "0">>, 1, 2))
    IN  IF whole = <<>> /\ frac = <<>> THEN NaN
        ELSE IF start > first /\ str[first] = "-" THEN 0 - cents
        ELSE cents

\* /^\d*(\.\d{0,2})?$/.test(value)
PaidPattern(value) ==
    LET whole == DigitRun(value, 1)
        rest  == SubSeq(value, Len(whole) + 1, Len(value))
    IN  \/ rest = <<>>
        \/ /\ rest[1] = "."
           /\ Len(rest) <= 3
           /\ \A i \in 2..Len(rest) : IsDigit(rest[i])

\* paidAmounts[name] || '0'
PaidText(paidAmounts, name) ==
    IF name \in DOMAIN paidAmounts /\ paidAmounts[name] # <<>>
    THEN paidAmounts[name] ELSE <<"0">>

\* the map with one entry set: { ...prev, [name]: value }
SetPaid(paidAmounts, name, value) ==
    [n \in DOMAIN paidAmounts \cup {name} |->
        IF n = name THEN value ELSE paidAmounts[n]]

\* what a row of the list shows of a summary (the render of a participant)
paidAmount(s) ==
    LET parsed == parseFloat(PaidText(summary.paidAmounts, s.participantName))
    IN  IF parsed = NaN THEN 0 ELSE parsed         \* parseFloat(...) || 0

remaining(s) ==
    IF s.totalAmount - paidAmount(s) > 0 THEN s.totalAmount - paidAmount(s) ELSE 0

paidRatio(s) ==
    IF s.totalAmount > 0
    THEN IF paidAmount(s) < s.totalAmount THEN Rat(paidAmount(s), s.totalAmount)
         ELSE Rat(1, 1)
    ELSE RatZero

\* a request of the component that is on its way, with the user it was sent as
PaidRequest(kind, name, amount, uid) ==
    [kind |-> kind, name |-> name, amount |-> amount, uid |-> uid]

Sent(kind) == PaidRequest(kind, <<>>, 0, session)

\* the component after its mount effects have run: loadPaymentSummary, loadUser
\* and loadPaidAmounts are on their way
Mounted ==
    [PaymentSummary EXCEPT
        !.paidLoading = TRUE,
        !.requests = {Sent("loadPaymentSummary"), Sent("getSession"),
                      Sent("loadPaidAmounts")}]

\* useEffect on summaries: a name without an entry gets the entry ''
defaultPaidAmounts(paidAmounts, summaries) ==
    [n \in DOMAIN paidAmounts \cup {summaries[i].participantName : i \in DOMAIN summaries} |->
        IF n \in DOMAIN paidAmounts THEN paidAmounts[n] ELSE <<>>]

\* the map loadPaidAmounts builds of the rows of participant_payments
loadPaidAmounts(rows) ==
    [n \in {r.participant_name : r \in rows} |->
        LET row == CHOOSE r \in rows : r.participant_name = n
        IN  IF row.paid_amount = Undefined THEN <<>> ELSE toString(row.paid_amount)]

\* variant: persistPaidAmount without the check of the user
persistPaidAmount_anyone(s, name, amount) ==
    IF name = <<>> \/ amount = NaN THEN s
    ELSE [s EXCEPT !.requests = @ \cup {PaidRequest("upsert", name, amount, session)}]

persistPaidAmount(s, name, amount) ==
    IF s.user = NULL THEN s
    ELSE IF name = <<>> \/ amount = NaN THEN s
    ELSE [s EXCEPT !.requests = @ \cup {PaidRequest("upsert", name, amount, session)}]

\* variant: handlePaidChange without the check of the user
handlePaidChange_anyone(s, name, value) ==
    IF ~PaidPattern(value) THEN s
    ELSE [s EXCEPT !.paidAmounts = SetPaid(@, name, value)]

\* variant: every accepted keystroke is written to storage
handlePaidChange_persisting(s, name, value) ==
    IF s.user = NULL THEN s
    ELSE IF ~PaidPattern(value) THEN s
    ELSE persistPaidAmount([s EXCEPT !.paidAmounts = SetPaid(@, name, value)],
                           name, parseFloat(value))

handlePaidChange(s, name, value) ==
    IF s.user = NULL THEN s
    ELSE IF ~PaidPattern(value) THEN s
    ELSE [s EXCEPT !.paidAmounts = SetPaid(@, name, value)]

handlePaidBlur(s, name) ==
    IF s.user = NULL THEN s
    ELSE LET parsed == parseFloat(PaidText(s.paidAmounts, name))
         IN  IF parsed = NaN THEN s ELSE persistPaidAmount(s, name, parsed)

handleFillTotal(s, name, amount) ==
    IF s.user = NULL THEN s
    ELSE persistPaidAmount([s EXCEPT !.paidAmounts = SetPaid(@, name, toFixed(amount))],
                           name, amount)

\* participant_payments after an upsert on participant_name; the policy of the
\* table lets every signed-in user write and nobody else
UpsertPayment(rows, req) ==
    IF req.uid = NULL THEN rows
    ELSE {r \in rows : r.participant_name # req.name}
         \cup {[participant_name |-> req.name, paid_amount |-> req.amount]}

MaxGestures == 4

\* what a user types or pastes into the field of a paid amount
PaidInputs == {<<>>, <<".">>, <<"2">>, <<"0", ".", "5">>, <<"-", "1">>,
               <<"1", ".", "0", "1", "1">>}

\* the lists a finished loadPaymentSummary shows: a name whose shares are
\* negative, nothing or positive
PaidSummaries ==
    {sortSummaries(<<[participantName |-> <<"A">>, totalAmount |-> t, details |-> <<>>]>>) :
        t \in {0 - 50, 0, 101}}

InitPaid ==
    /\ EmptyStorage
    /\ ed = [c \in Clients |-> BillEditor]
    /\ events = 0
    /\ faulty = TRUE
    /\ calc = NoCalc
    /\ participant_payments = {}
    /\ session \in {NULL, Owner}
    /\ dashboard = Dashboard
    /\ summary = Mounted

PaidStep(s) ==
    /\ summary' = s
    /\ UNCHANGED <<storage, ed, faulty, calc, dashboard>>

Gesture(s, handler) ==
    /\ events < MaxGestures
    /\ events' = events + 1
    /\ PaidStep([s EXCEPT !.last = [handler |-> handler, at |-> events + 1,
                                    guest |-> session = NULL]])

\* the page is opened again: the component is mounted anew
Remount ==
    /\ summary.requests = {}
    /\ Gesture(Mounted, "none")
    /\ UNCHANGED <<participant_payments, session, dashboard>>

\* sign-in or sign-out; onAuthStateChange sets the user
AuthStateChange ==
    /\ \E s \in {NULL, Owner} \ {session} :
          /\ session' = s
          /\ Gesture([summary EXCEPT !.user = s], "none")
    /\ UNCHANGED participant_payments

LoadUser ==
    /\ \E req \in summary.requests :
          /\ req.kind = "getSession"
          /\ PaidStep([summary EXCEPT !.user = session, !.requests = @ \ {req}])
    /\ UNCHANGED <<events, participant_payments, session, dashboard>>

SummariesArrive ==
    /\ \E req \in summary.requests, list \in PaidSummaries :
          /\ req.kind = "loadPaymentSummary"
          /\ PaidStep([summary EXCEPT
                 !.pc = "done", !.loading = FALSE, !.summaries = list,
                 !.totalAmount = SumTotals(list),
                 !.paidAmounts = defaultPaidAmounts(@, list),
                 !.requests = @ \ {req}])
    /\ UNCHANGED <<events, participant_payments, session, dashboard>>

PaidAmountsArrive ==
    /\ \E req \in summary.requests, ok \in {TRUE, FALSE} :
          /\ req.kind = "loadPaidAmounts"
          /\ PaidStep([summary EXCEPT
                 !.paidAmounts = IF ok THEN loadPaidAmounts(participant_payments) ELSE @,
                 !.paidLoading = FALSE,
                 !.requests = @ \ {req}])
    /\ UNCHANGED <<events, participant_payments, session, dashboard>>

\* the rows of the list are shown
RowsShown == summary.pc = "done" /\ summary.error = NULL /\ summary.summaries # <<>>

PaidChange ==
    /\ RowsShown
    /\ \E i \in DOMAIN summary.summaries, value \in PaidInputs :
          Gesture(handlePaidChange(summary, summary.summaries[i].participantName, value),
                  "handlePaidChange")
    /\ UNCHANGED <<participant_payments, session, dashboard>>

PaidBlur ==
    /\ RowsShown
    /\ \E i \in DOMAIN summary.summaries :
          Gesture(handlePaidBlur(summary, summary.summaries[i].participantName),
                  "handlePaidBlur")
    /\ UNCHANGED <<participant_payments, session, dashboard>>

FillTotal ==
    /\ RowsShown
    /\ \E i \in DOMAIN summary.summaries :
          Gesture(handleFillTotal(summary, summary.summaries[i].participantName,
                                  summary.summaries[i].totalAmount),
                  "handleFillTotal")
    /\ UNCHANGED <<participant_payments, session, dashboard>>

UpsertArrives ==
    /\ \E req \in summary.requests, ok \in {TRUE, FALSE} :
          /\ req.kind = "upsert"
          /\ participant_payments' =
                 IF ok THEN UpsertPayment(participant_payments, req)
                 ELSE participant_payments
          /\ PaidStep([summary EXCEPT !.requests = @ \ {req}])
    /\ UNCHANGED <<events, session>>

NextPaid ==
    \/ Remount
    \/ AuthStateChange
    \/ LoadUser
    \/ SummariesArrive
    \/ PaidAmountsArrive
    \/ PaidChange
    \/ PaidBlur
    \/ FillTotal
    \/ UpsertArrives

SpecPaid == InitPaid /\ [][NextPaid]_vars

\* C11: in every state of the payment summary and for every name shown,
\* remaining is max(totalAmount - paidAmount, 0) and not negative, paidRatio is
\* between 0 and 1, and paidRatio is 0 when totalAmount is 0.
C11_RemainingAndRatio ==
    \A i \in DOMAIN summary.summaries :
        LET s == summary.summaries[i]
        IN  /\ remaining(s) >= 0
            /\ paidRatio(s).num >= 0
            /\ paidRatio(s).num <= paidRatio(s).den
            /\ s.totalAmount = 0 => paidRatio(s) = RatZero

\* the part of C11 the code keeps: remaining is never negative and paidRatio
\* is never above 1
C11_ClampedAbove ==
    \A i \in DOMAIN summary.summaries :
        LET s == summary.summaries[i]
        IN  /\ remaining(s) >= 0
            /\ paidRatio(s).num <= paidRatio(s).den
            /\ s.totalAmount <= 0 => paidRatio(s) = RatZero

PaidHandlers == {"handlePaidChange", "handlePaidBlur", "handleFillTotal"}

\* C12: while no user is signed in, no typing, blur or fill-to-total changes
\* the map of paid amounts, sends a write or changes participant_payments.
C12_GuestChangesNothing ==
    [][(/\ session = NULL
        /\ summary'.last # summary.last
        /\ summary'.last.handler \in PaidHandlers)
       => /\ summary'.paidAmounts = summary.paidAmounts
          /\ summary'.requests = summary.requests
          /\ participant_payments' = participant_payments]_vars

\* a guest, shown a stored paid amount, has pressed fill-to-total
C12_Witness ==
    /\ session = NULL
    /\ dashboard = Dashboard
    /\ summary.user = NULL
    /\ summary.last.guest
    /\ summary.last.handler = "handleFillTotal"
    /\ summary.requests = {}
    /\ participant_payments # {}
    /\ summary.paidAmounts = loadPaidAmounts(participant_payments)

----------------------------------------------------------------------------
(* A guest or another user has the stored bill of Owner before them (SpecOwner) *)

Other == "u2"

InitOwner ==
    /\ SharedBill
    /\ \E user \in {NULL, Other} :
          ed = [c \in Clients |-> [BillEditor EXCEPT !.user = user]]
    /\ events = 0
    /\ faulty = TRUE
    /\ calc = NoCalc
    /\ summary = PaymentSummary
    /\ participant_payments = {}
    /\ session = NULL
    /\ dashboard = Dashboard

SpecOwner == InitOwner /\ [][Next]_vars

\* the stored bill of Owner is as it was
SharedBillKept ==
    /\ \E b \in bills : b.id = 1 /\ b.title = <<"T">> /\ b.total_amount = 101
    /\ ParticipantsOf(1) = {[id |-> 1, bill_id |-> 1, name |-> <<"A">>],
                            [id |-> 2, bill_id |-> 1, name |-> <<"B">>]}
    /\ {[it EXCEPT !.sort_order = 0] : it \in ItemsOf(1)}
           = {[id |-> 1, bill_id |-> 1, item_name |-> <<"t", "e", "a">>,
               unit_price |-> 101, discount_ratio |-> 100,
               discount_adjustment |-> 0, sort_order |-> 0]}
    /\ SplitsOfBill(1) = {[bill_item_id |-> 1, participant_id |-> 1,
                           share_amount |-> 51, k |-> 1],
                          [bill_item_id |-> 1, participant_id |-> 2,
                           share_amount |-> 51, k |-> 1]}

\* C13: a user who is a guest or not the creator of a bill has canEdit false
\* for it and starts no save of it, the stored title, participants, items and
\* shares of the bill stay as they are, and the bill is loaded and shown.
C13_OnlyOwnerChanges ==
    /\ SharedBillKept
    /\ \A c \in Clients :
          ed[c].billId = 1 =>
              /\ ~ed[c].canEdit
              /\ ed[c].pc = "edit"
              /\ ed[c].alert = NULL =>
                    /\ ed[c].title = <<"T">>
                    /\ Map(ed[c].participants, LAMBDA p : p.name) = <<<<"A">>, <<"B">>>>
                    /\ Len(ed[c].items) = 1
                    /\ ed[c].items[1].participantIds = <<1, 2>>

\* a signed-in user who is not the creator has opened the bill and sees it
C13_Witness ==
    /\ ed[1].user = Other
    /\ ed[1].billId = 1
    /\ ed[1].alert = NULL
    /\ ~ed[1].canEdit
    /\ Len(ed[1].items) = 1

----------------------------------------------------------------------------
(* components/Dashboard.tsx: handleDeleteBill, and the summary after it
   (SpecDelete) *)

\* variant: the rows of the bill's tables are left behind
DeleteBillRows_noCascade(billId) ==
    /\ bills' = {b \in bills : b.id # billId}
    /\ UNCHANGED <<bill_participants, bill_items, split_details, nextId>>

\* delete from bills where id = billId, with ON DELETE CASCADE of
\* bill_participants and bill_items and, through both, of split_details
DeleteBillRows(billId) ==
    /\ bills' = {b \in bills : b.id # billId}
    /\ bill_participants' = bill_participants \ ParticipantsOf(billId)
    /\ bill_items' = bill_items \ ItemsOf(billId)
    /\ split_details' =
           {s \in split_details :
               /\ s.bill_item_id \notin {it.id : it \in ItemsOf(billId)}
               /\ s.participant_id \notin {p.id : p \in ParticipantsOf(billId)}}
    /\ UNCHANGED nextId

\* the four share rows of two stored bills
StoredSplits == {s \in SeenSplits : s.bill_item_id > 0 /\ s.participant_id > 0}

InitDelete ==
    /\ bills = SeenBills
    /\ bill_participants = SeenParticipants
    /\ bill_items = SeenItems
    /\ split_details = StoredSplits
    /\ nextId = [bills |-> 3, participants |-> 5, items |-> 3]
    /\ ed = [c \in Clients |-> BillEditor]
    /\ events = 0
    /\ faulty = TRUE
    /\ calc = NoCalc
    /\ summary = PaymentSummary
    /\ participant_payments = {}
    /\ session = Owner
    /\ dashboard = Dashboard

\* handleMouseDown of the scrolling list: every press of the button, the one
\* that begins a click included, clears the drag flag
handleMouseDown(d) == [d EXCEPT !.hasDragged = FALSE]

\* handleMouseMove with the button held, past the threshold of five pixels
handleMouseMove(d) == [d EXCEPT !.hasDragged = TRUE]

\* handleDeleteBill up to its request: a click on a bill that is not the
\* marked one marks it and returns, a click on the marked bill sends the
\* delete and leaves the mark until the reply
handleDeleteBill(d, billId) ==
    IF d.pendingDeleteId # billId
    THEN [d EXCEPT !.pendingDeleteId = billId]
    ELSE [d EXCEPT !.deleting = @ \cup {billId}]

\* handleCardClick without its setPendingDeleteId(null)
handleCardClick_keepsMark(d, billId) ==
    IF d.hasDragged
    THEN d
    ELSE [d EXCEPT !.selectedBillId = billId, !.isModalOpen = TRUE]

\* handleCardClick: the click that ends a drag is dropped, any other click
\* opens the modal of the bill and clears the mark
handleCardClick(d, billId) ==
    IF d.hasDragged
    THEN d
    ELSE [d EXCEPT !.selectedBillId = billId, !.isModalOpen = TRUE,
                   !.pendingDeleteId = NoId]

\* the onClick of the check button: it clears the mark and sends, through
\* handleToggleChecked, the update of the checked flag it was drawn with
handleCheckClick(d, billId, currentChecked) ==
    [d EXCEPT !.pendingDeleteId = NoId,
              !.toggling = @ \cup {[billId |-> billId, checked |-> ~currentChecked]}]

\* the two latest clicks on the list
Clicked(d, kind, billId, at) ==
    [d EXCEPT !.last = [kind |-> kind, billId |-> billId, at |-> at],
              !.before = d.last]

\* a click on the delete button of a bill of the list; the buttons are drawn
\* for a signed-in user and are covered while the modal is open
ClickDelete ==
    /\ session # NULL
    /\ ~dashboard.isModalOpen
    /\ events < MaxEvents
    /\ events' = events + 1
    /\ \E billId \in {b.id : b \in SeenBills} :
          dashboard' = Clicked(handleDeleteBill(handleMouseDown(dashboard), billId),
                               "delete", billId, events')
    /\ UNCHANGED <<storage, ed, faulty, calc, summary, participant_payments, session>>

\* the reply of a delete; the policy lets the creator of the bill delete it
DeleteArrives ==
    /\ \E billId \in dashboard.deleting, ok \in Outcomes :
          /\ Request(ok)
          /\ IF ok
             THEN /\ IF \E b \in bills : b.id = billId /\ b.created_by = session
                     THEN DeleteBillRows(billId)
                     ELSE UNCHANGED storage
                  /\ dashboard' =
                         [dashboard EXCEPT
                             !.pendingDeleteId = NoId, !.deleting = @ \ {billId},
                             !.deleted = @ \cup {[billId |-> billId,
                                                  load |-> summary.pc]}]
             ELSE /\ UNCHANGED storage
                  /\ dashboard' = [dashboard EXCEPT !.pendingDeleteId = NoId,
                                                    !.deleting = @ \ {billId},
                                                    !.alert = "delete failed"]
    /\ UNCHANGED <<ed, faulty, calc, summary, participant_payments, session>>

NextDelete ==
    \/ ClickDelete
    \/ DeleteArrives
    \/ LoadStart
    \/ LoadTimeout
    \/ FetchSplits
    \/ FetchItemsAndParticipants
    \/ FetchBillsAndGroup

SpecDelete == InitDelete /\ [][NextDelete]_vars

\* the bills deleted before loadPaymentSummary began
DeletedBefore == {d.billId : d \in {x \in dashboard.deleted : x.load = "idle"}}

\* C14: once a bill is deleted, storage holds no participant, item or share
\* of it, and a summary computed afterwards has no share of it: no detail of
\* the bill, and every total is the sum of the remaining shares of the name.
C14_DeleteCascades ==
    /\ \A d \in dashboard.deleted :
          /\ d.billId \notin BillIds
          /\ ParticipantsOf(d.billId) = {}
          /\ ItemsOf(d.billId) = {}
          /\ \A s \in split_details :
                /\ \E it \in bill_items : it.id = s.bill_item_id
                /\ \E p \in bill_participants : p.id = s.participant_id
    /\ LoadSucceeded =>
          \A i \in DOMAIN summary.summaries :
              LET s == summary.summaries[i]
              IN  /\ \A j \in DOMAIN s.details : s.details[j].billId \notin DeletedBefore
                  /\ s.totalAmount =
                         SumShares({r \in StoredSplits :
                             /\ \E p \in SeenParticipants :
                                   /\ p.id = r.participant_id
                                   /\ p.name = s.participantName
                             /\ \E it \in SeenItems :
                                   /\ it.id = r.bill_item_id
                                   /\ \E j \in DOMAIN s.details :
                                         s.details[j].billId = it.bill_id})

\* bill 1 was deleted, then the summary was loaded: A is left with the share
\* of bill 2
C14_Witness ==
    /\ LoadSucceeded
    /\ DeletedBefore = {1}
    /\ Len(summary.summaries) = 2
    /\ \E i \in DOMAIN summary.summaries :
          /\ summary.summaries[i].participantName = <<"A">>
          /\ summary.summaries[i].totalAmount = 20

----------------------------------------------------------------------------
(* The names of the participants of a bill, in the editor and stored (SpecNames) *)

\* a pasted bill that lists a name twice, once with a space after it
DocSameName ==
    [title |-> <<"T">>, participants |-> << <<"A">>, <<"A", " ">> >>,
     items |-> << ImportItem(<<"t", "e", "a">>, 101, 0, 0, 0, << <<"A">> >>) >>]

ImportNames(c) ==
    /\ Editing(c)
    /\ ed[c].billId = NoId
    /\ \E billData \in {DocSameName, DocQuantity} :
          Edit(c, handleImportJSON(ed[c], billData))

NamesStep(c) ==
    \/ OpenNew(c)
    \/ AddParticipant(c)
    \/ RenameParticipant(c)
    \/ RemoveParticipant(c)
    \/ Undo(c)
    \/ ImportNames(c)
    \/ StartSave(c)
    \/ SaveBill(c)
    \/ InsertParticipants(c)
    \/ InsertItems(c)
    \/ InsertSplits(c)
    \/ UpdateTotal(c)

NextNames == NamesStep(1)

SpecNames == Init /\ [][NextNames]_vars

\* no name twice in a list of participants
UniqueNames(participants) ==
    \A i, j \in DOMAIN participants :
        participants[i].name = participants[j].name => i = j

\* C15: in every state no two participants of a bill have the same name,
\* neither in the editor nor in storage.
C15_UniqueNames ==
    /\ \A c \in Clients : UniqueNames(ed[c].participants)
    /\ \A p, q \in bill_participants :
          p.bill_id = q.bill_id /\ p.name = q.name => p = q

----------------------------------------------------------------------------
(* The LineItems an imported item becomes *)

\* of a LineItem, what the expansion of an imported item settles
LineItemShape(m) ==
    [unit_price |-> m.unit_price, discount_ratio |-> m.discount_ratio,
     discount_adjustment |-> m.discount_adjustment,
     shareCount |-> Len(m.participantIds)]

\* the LineItems of a pasted bill as the expansion by quantity gives them: q
\* for a quantity q > 1 and one otherwise, the adjustment on the first only,
\* each shared by the names of the item that are participants of the bill
ExpandedShapes(billData) ==
    LET known == {Trim(billData.participants[i]) : i \in DOMAIN billData.participants}
    IN  Flatten([k \in DOMAIN billData.items |->
            LET item == billData.items[k] IN
            [i \in 1..(IF item.quantity > 1 THEN item.quantity ELSE 1) |->
                [unit_price |-> item.unit_price,
                 discount_ratio |-> OrElse(item.discount_ratio, 100),
                 discount_adjustment |-> IF i = 1 THEN item.discount_adjustment ELSE 0,
                 shareCount |-> Len(Filter(item.participants,
                                           LAMBDA name : Trim(name) \in known))]]])

\* the editor's items are the expansion of a document of ImportDocs
ImportedInto(e) ==
    \E billData \in ImportDocs :
        /\ Map(e.participants, LAMBDA p : p.name)
               = Map(billData.participants, LAMBDA name : Trim(name))
        /\ Map(e.items, LAMBDA m : LineItemShape(m)) = ExpandedShapes(billData)

\* C16: an imported item of quantity q > 1 becomes exactly q LineItems with
\* its unit_price, discount_ratio and participants, the first of them alone
\* with its discount_adjustment; an item of quantity 1 or without quantity
\* becomes exactly one LineItem; in handleImportJSON and in handleBatchSave.
C16_QuantityExpansion ==
    /\ [][\A c \in Clients :
            ed[c].alert # "JSON imported" /\ ed'[c].alert = "JSON imported"
                => ImportedInto(ed'[c])]_vars
    /\ [](\A imp \in CleanImports :
            Map(imp.itemsToInsert, LAMBDA m : LineItemShape(m))
                = ExpandedShapes(imp.billData))

\* the half of C16 that is about handleImportJSON
C16_SingleImport ==
    [][\A c \in Clients :
          ed[c].alert # "JSON imported" /\ ed'[c].alert = "JSON imported"
              => ImportedInto(ed'[c])]_vars

----------------------------------------------------------------------------
(* The data-entry guard of handleSave *)

----------------------------------------------------------------------------
(* loadPaymentSummary with requests that may never be answered (SpecSlow) *)

InitSlow ==
    /\ bills = SeenBills
    /\ bill_participants = SeenParticipants
    /\ bill_items = SeenItems
    /\ split_details = StoredSplits
    /\ nextId = [bills |-> 3, participants |-> 5, items |-> 3]
    /\ ed = [c \in Clients |-> BillEditor]
    /\ events = 0
    /\ faulty = TRUE
    /\ calc = NoCalc
    /\ summary = PaymentSummary
    /\ participant_payments = {}
    /\ session = NULL
    /\ dashboard = Dashboard

\* the mount effect runs and an armed timer fires after its 15 seconds; a
\* request may stay without an answer for ever
SpecSlow ==
    /\ InitSlow
    /\ [][NextSummary]_vars
    /\ WF_vars(LoadStart)
    /\ WF_vars(LoadTimeout)

Loading == summary.pc \in {"splits", "rows", "bills"}

TimeoutShown == ~summary.loading /\ summary.error = "timeout"

\* C18: a cycle of loadPaymentSummary that does not come to its end, whichever
\* of its fetches is the slow one, leaves the loading state with the timeout
\* error shown.
C18_SlowLoadTimesOut == Loading ~> (summary.pc = "done" \/ TimeoutShown)

\* the part of C18 the code keeps: the fetch of the share rows is covered
C18_FirstFetchTimesOut == (summary.pc = "splits") ~> (summary.pc # "splits" \/ TimeoutShown)

----------------------------------------------------------------------------
(* loadPaymentSummary after a failed fetch *)

\* a request of this loadPaymentSummary has failed
FetchFailed == events > 0

\* C19: once a fetch of loadPaymentSummary has failed (of the items, the
\* participants or the bills, as of the share rows), the load has ended with
\* an error message, no summaries and a total of 0: no totals are shown that
\* were computed of the fetches that succeeded.
C19_FailedFetchFailsAll ==
    FetchFailed =>
        /\ summary.pc = "done"
        /\ summary.error # NULL
        /\ summary.summaries = <<>>
        /\ summary.totalAmount = 0
        /\ ~summary.loading

\* the share rows, the items and the participants were fetched, the fetch of
\* the bills failed
C19_Witness ==
    /\ FetchFailed
    /\ summary.failed
    /\ summary.pc = "done"
    /\ Len(summary.splitDetails) > 1
    /\ Len(summary.items) > 0
    /\ Len(summary.participants) > 0

----------------------------------------------------------------------------
(* The order of the summaries (SpecSort): one bill whose three participants
   have names with and without numbers *)

SortNames ==
    {<<"8", "-", "a">>, <<"1", "0", " ", "-", " ", "b">>, <<"b", "2">>,
     <<"a", "2">>, <<"2", " ", "-", "a">>, <<"a">>, <<"B">>}

InitSort ==
    /\ bills = {[id |-> 1, title |-> <<"T">>, created_by |-> Owner, total_amount |-> 6,
                 bill_date |-> defaultDate, checked |-> FALSE]}
    /\ \E n1, n2, n3 \in SortNames :
          /\ n1 # n2 /\ n1 # n3 /\ n2 # n3
          /\ bill_participants = {[id |-> 1, bill_id |-> 1, name |-> n1],
                                  [id |-> 2, bill_id |-> 1, name |-> n2],
                                  [id |-> 3, bill_id |-> 1, name |-> n3]}
    /\ bill_items = {[id |-> 1, bill_id |-> 1, item_name |-> <<"t", "e", "a">>,
                      unit_price |-> 6, discount_ratio |-> 100,
                      discount_adjustment |-> 0, sort_order |-> 0]}
    /\ split_details = {[bill_item_id |-> 1, participant_id |-> p,
                         share_amount |-> 2, k |-> 1] : p \in 1..3}
    /\ nextId = [bills |-> 2, participants |-> 4, items |-> 2]
    /\ ed = [c \in Clients |-> BillEditor]
    /\ events = 0
    /\ faulty = FALSE
    /\ calc = NoCalc
    /\ summary = PaymentSummary
    /\ participant_payments = {}
    /\ session = NULL
    /\ dashboard = Dashboard

SpecSort == InitSort /\ [][NextSummary]_vars

HasInteger(name) == \E i \in DOMAIN name : IsDigit(name[i])

\* the first run of digits of the name, as a number
FirstInteger(name) ==
    parseInt(DigitRun(name, CHOOSE i \in DOMAIN name :
                                /\ IsDigit(name[i])
                                /\ \A j \in 1..(i - 1) : ~IsDigit(name[j])))

\* the order C20 gives two names
InOrder(a, b) ==
    IF HasInteger(a) /\ HasInteger(b)
    THEN \/ FirstInteger(a) < FirstInteger(b)
         \/ FirstInteger(a) = FirstInteger(b) /\ localeCompare(a, b) <= 0
    ELSE IF HasInteger(a) THEN TRUE
    ELSE IF HasInteger(b) THEN FALSE
    ELSE localeCompare(a, b) <= 0

\* C20: in the list of summaries every name with an integer comes before
\* every name without one, the names with integers are in ascending order of
\* the integer, and names with the same integer or with none are in the order
\* of the locale's string comparison.
C20_SummariesOrdered ==
    LoadSucceeded =>
        \A i, j \in DOMAIN summary.summaries :
            i < j => InOrder(summary.summaries[i].participantName,
                             summary.summaries[j].participantName)

\* 8-a before 10 - b before a name without a number
C20_Witness ==
    /\ LoadSucceeded
    /\ Len(summary.summaries) = 3
    /\ summary.summaries[1].participantName = <<"8", "-", "a">>
    /\ summary.summaries[2].participantName = <<"1", "0", " ", "-", " ", "b">>
    /\ summary.summaries[3].participantName = <<"B">>

----------------------------------------------------------------------------
(* components/PaymentSummary.tsx: the details of one name grouped by bill
   (SpecGroup) *)

\* the days from 1970-01-01 to the date, in the proleptic Gregorian calendar
DaysFromEpoch(date) ==
    LET y   == IF date[2] <= 2 THEN date[1] - 1 ELSE date[1]
        era == y \div 400
        yoe == y - era * 400
        mp  == IF date[2] > 2 THEN date[2] - 3 ELSE date[2] + 9
        doy == ((153 * mp + 2) \div 5) + date[3] - 1
        doe == yoe * 365 + (yoe \div 4) - (yoe \div 100) + doy
    IN  era * 146097 + doe - 719468

\* new Date('YYYY-MM-DD').getTime(): midnight UTC of the day, counted in days
\* of 86400000 ms
getTime(date) == DaysFromEpoch(date)

\* handleParticipantSelect: a click on the card of a name; no name selected
\* is the empty string (null and '' are both falsy)
handleParticipantSelect(s, name) == [s EXCEPT !.selectedParticipant = name]

\* Escape, or a click on the backdrop or on the close button of the modal
closeParticipantDetail(s) == [s EXCEPT !.selectedParticipant = <<>>]

\* summaries.find(s => s.participantName === selectedParticipant), or no summary
NoSummary == [participantName |-> <<>>, totalAmount |-> 0, details |-> <<>>]

selectedSummary ==
    LET at == {i \in DOMAIN summary.summaries :
                  summary.summaries[i].participantName = summary.selectedParticipant}
    IN  IF summary.selectedParticipant = <<>> \/ at = {} THEN NoSummary
        ELSE summary.summaries[CHOOSE i \in at : \A j \in at : i <= j]

\* the body of selectedSummary.details.forEach: acc is the map groupedDetails
\* so far, in insertion order
groupDetail(acc, detail) ==
    LET at == {i \in DOMAIN acc : acc[i].billId = detail.billId}
        item == [itemName |-> detail.itemName, itemId |-> detail.itemId,
                 shareAmount |-> detail.shareAmount]
        opened == IF at = {}
                  THEN Append(acc, [billId |-> detail.billId,
                                    billTitle |-> detail.billTitle,
                                    billDate |-> detail.billDate,
                                    items |-> <<>>, totalAmount |-> 0])
                  ELSE acc
    IN  [i \in DOMAIN opened |->
            IF opened[i].billId = detail.billId
            THEN [opened[i] EXCEPT !.items = Append(@, item),
                                   !.totalAmount = @ + detail.shareAmount]
            ELSE opened[i]]

RECURSIVE groupDetails(_)
groupDetails(details) ==
    IF details = <<>> THEN <<>>
    ELSE groupDetail(groupDetails(SubSeq(details, 1, Len(details) - 1)),
                     details[Len(details)])

\* variant: the oldest bill first
compareGroups_ascending(a, b) == getTime(a.billDate) - getTime(b.billDate)

\* the comparator given to sort
compareGroups(a, b) == getTime(b.billDate) - getTime(a.billDate)

\* insert x into the sorted sequence s after the elements that are not after it
InsertGroup(s, x) ==
    LET before == {i \in DOMAIN s : compareGroups(s[i], x) <= 0}
        k      == IF before = {} THEN 0 ELSE CHOOSE i \in before : \A j \in before : j <= i
    IN  SubSeq(s, 1, k) \o <<x>> \o SubSeq(s, k + 1, Len(s))

RECURSIVE sortGroups(_)
\* Array.prototype.sort with compareGroups (a stable sort)
sortGroups(s) ==
    IF s = <<>> THEN <<>>
    ELSE InsertGroup(sortGroups(SubSeq(s, 1, Len(s) - 1)), s[Len(s)])

\* groupedArray, as the modal renders it
groupedArray(selected) == sortGroups(groupDetails(selected.details))

SelectParticipant ==
    /\ summary.pc = "done"
    /\ ~summary.loading
    /\ \E i \in DOMAIN summary.summaries :
          summary' = handleParticipantSelect(summary, summary.summaries[i].participantName)
    /\ UNCHANGED <<storage, ed, events, faulty, calc, participant_payments, session, dashboard>>

CloseParticipantDetail ==
    /\ summary.selectedParticipant # <<>>
    /\ summary' = closeParticipantDetail(summary)
    /\ UNCHANGED <<storage, ed, events, faulty, calc, participant_payments, session, dashboard>>

\* the days the three bills may be of: the end of a year, a leap day and its
\* neighbours
GroupDates == {<<2023, 12, 31>>, <<2024, 1, 1>>, <<2024, 2, 29>>, <<2024, 3, 1>>}

\* A takes part in three bills and has two items in the first; B in one
InitGroup ==
    /\ \E d1, d2, d3 \in GroupDates :
          bills = {[id |-> 1, title |-> <<"T">>, created_by |-> Owner,
                    total_amount |-> 47, bill_date |-> d1, checked |-> FALSE],
                   [id |-> 2, title |-> <<"T">>, created_by |-> Owner,
                    total_amount |-> 20, bill_date |-> d2, checked |-> FALSE],
                   [id |-> 3, title |-> <<"T">>, created_by |-> Owner,
                    total_amount |-> 7, bill_date |-> d3, checked |-> FALSE]}
    /\ bill_participants = {[id |-> 1, bill_id |-> 1, name |-> <<"A">>],
                            [id |-> 2, bill_id |-> 2, name |-> <<"A">>],
                            [id |-> 3, bill_id |-> 3, name |-> <<"A">>],
                            [id |-> 4, bill_id |-> 1, name |-> <<"B">>]}
    /\ bill_items = {[id |-> i, bill_id |-> IF i = 4 THEN 1 ELSE i,
                      item_name |-> <<"t", "e", "a">>,
                      unit_price |-> IF i = 1 THEN 35 ELSE IF i = 2 THEN 20
                                     ELSE IF i = 3 THEN 7 ELSE 12,
                      discount_ratio |-> 100, discount_adjustment |-> 0,
                      sort_order |-> IF i = 4 THEN 1 ELSE 0] : i \in 1..4}
    /\ split_details = {[bill_item_id |-> 1, participant_id |-> 1,
                         share_amount |-> 30, k |-> 1],
                        [bill_item_id |-> 1, participant_id |-> 4,
                         share_amount |-> 5, k |-> 1],
                        [bill_item_id |-> 2, participant_id |-> 2,
                         share_amount |-> 20, k |-> 1],
                        [bill_item_id |-> 3, participant_id |-> 3,
                         share_amount |-> 7, k |-> 1],
                        [bill_item_id |-> 4, participant_id |-> 1,
                         share_amount |-> 12, k |-> 1]}
    /\ nextId = [bills |-> 4, participants |-> 5, items |-> 5]
    /\ ed = [c \in Clients |-> BillEditor]
    /\ events = 0
    /\ faulty = FALSE
    /\ calc = NoCalc
    /\ summary = PaymentSummary
    /\ participant_payments = {}
    /\ session = NULL
    /\ dashboard = Dashboard

NextGroup ==
    \/ LoadStart
    \/ LoadTimeout
    \/ FetchSplits
    \/ FetchItemsAndParticipants
    \/ FetchBillsAndGroup
    \/ SelectParticipant
    \/ CloseParticipantDetail

SpecGroup == InitGroup /\ [][NextGroup]_vars

\* the date a is not before the date b
NotBefore(a, b) ==
    \/ a[1] > b[1]
    \/ a[1] = b[1] /\ a[2] > b[2]
    \/ a[1] = b[1] /\ a[2] = b[2] /\ a[3] >= b[3]

RECURSIVE SumAmounts(_)
SumAmounts(s) == IF s = <<>> THEN 0 ELSE Head(s).shareAmount + SumAmounts(Tail(s))

RECURSIVE SumGroups(_)
SumGroups(s) == IF s = <<>> THEN 0 ELSE Head(s).totalAmount + SumGroups(Tail(s))

\* C21: for the selected name the grouped-by-bill view has exactly one group
\* for each bill that contributes a detail, a group holds the details of its
\* bill and its subtotal is the sum of their share amounts, the subtotals of
\* all groups sum to the name's totalAmount, and the groups are in descending
\* order of the bill date.
C21_GroupedByBill ==
    summary.selectedParticipant # <<>> =>
        LET selected == selectedSummary
            groups == groupedArray(selected)
        IN  /\ {groups[i].billId : i \in DOMAIN groups}
                 = {selected.details[k].billId : k \in DOMAIN selected.details}
            /\ \A i, j \in DOMAIN groups : groups[i].billId = groups[j].billId => i = j
            /\ \A i \in DOMAIN groups :
                  /\ groups[i].items =
                        Map(Filter(selected.details,
                                   LAMBDA d : d.billId = groups[i].billId),
                            LAMBDA d : [itemName |-> d.itemName, itemId |-> d.itemId,
                                        shareAmount |-> d.shareAmount])
                  /\ groups[i].totalAmount = SumAmounts(groups[i].items)
            /\ SumGroups(groups) = selected.totalAmount
            /\ \A i, j \in DOMAIN groups :
                  i < j => NotBefore(groups[i].billDate, groups[j].billDate)

\* A is selected: three groups, the one of the first bill with two items, and
\* the bill that was fetched first is not the newest
C21_Witness ==
    /\ summary.selectedParticipant = <<"A">>
    /\ LET groups == groupedArray(selectedSummary)
       IN  /\ Len(groups) = 3
           /\ \E i \in DOMAIN groups : Len(groups[i].items) = 2
           /\ groups[1].billId # selectedSummary.details[1].billId
           /\ groups[1].billDate # groups[3].billDate

----------------------------------------------------------------------------
(* When a paid amount is written (SpecPaid) *)

\* value={paidAmounts[name] ?? ''}: the text the input of a name holds
InputText(s, name) ==
    IF name \in DOMAIN s.paidAmounts THEN s.paidAmounts[name] ELSE <<>>

RECURSIVE StripZeros(_)
StripZeros(digits) ==
    IF Len(digits) > 1 /\ Head(digits) = "0" THEN StripZeros(Tail(digits)) ELSE digits

\* the decimal text written out with a whole part and two decimals; an empty
\* input stands for 0, as it does where the row is rendered
TwoDecimals(text) ==
    LET sign  == IF text # <<>> /\ Head(text) = "-" THEN <<"-">> ELSE <<>>
        body  == SubSeq(text, Len(sign) + 1, Len(text))
        whole == DigitRun(body, 1)
        frac  == IF Len(whole) < Len(body) THEN DigitRun(body, Len(whole) + 2) ELSE <<>>
    IN  sign \o StripZeros(IF whole = <<>> THEN <<"0">> ELSE whole)
        \o <<".">> \o SubSeq(frac \o <<"0", "0">>, 1, 2)

\* the writes a step sends, and the writes that reach the table in a step
SentWrites == {req \in summary'.requests \ summary.requests : req.kind = "upsert"}
ArrivedWrites == {req \in summary.requests \ summary'.requests : req.kind = "upsert"}

\* C22: a write of a paid amount is sent only by a blur of the input or by
\* fill-to-total, never by a keystroke; the row of a name in storage changes
\* only when such a write arrives; and the amount a blur writes is the number
\* the input of that name holds at the moment of the blur.
C22_PersistOnBlur ==
    [][/\ SentWrites # {} =>
            /\ summary'.last # summary.last
            /\ summary'.last.handler \in {"handlePaidBlur", "handleFillTotal"}
       /\ (summary'.last # summary.last /\ summary'.last.handler = "handlePaidChange")
            => /\ SentWrites = {}
               /\ participant_payments' = participant_payments
       /\ participant_payments' # participant_payments =>
            \E req \in ArrivedWrites :
                participant_payments' = UpsertPayment(participant_payments, req)
       /\ (summary'.last # summary.last /\ summary'.last.handler = "handlePaidBlur")
            => \A req \in SentWrites :
                  /\ summary'.paidAmounts = summary.paidAmounts
                  /\ toFixed(req.amount) = TwoDecimals(InputText(summary, req.name))
      ]_vars

\* 0.5 was typed and the input was left: the write of 0.50 is on its way, and
\* nothing is stored yet
C22_Witness ==
    /\ summary.last.handler = "handlePaidBlur"
    /\ ~summary.last.guest
    /\ InputText(summary, <<"A">>) = <<"0", ".", "5">>
    /\ \E req \in summary.requests :
          req.kind = "upsert" /\ req.name = <<"A">> /\ req.amount = 50
    /\ participant_payments = {}

----------------------------------------------------------------------------
(* What a failed save leaves in storage (Spec) *)

\* C23: whichever request of handleSave or handleBatchSave fails, every split
\* row in storage refers to an item row and to a participant row that exist.
C23_NoOrphanedShares ==
    \A s \in split_details :
        /\ \E it \in bill_items : it.id = s.bill_item_id
        /\ \E p \in bill_participants : p.id = s.participant_id

\* the save of an existing bill has failed after its old rows were deleted:
\* the bill has participants and neither items nor shares
C23_Witness ==
    \E c \in Clients :
        /\ ed[c].pc = "edit"
        /\ ed[c].alert = "save failed"
        /\ ed[c].billId # NoId
        /\ ed[c].before # {}
        /\ ParticipantsOf(ed[c].billId) # {}
        /\ ItemsOf(ed[c].billId) = {}

----------------------------------------------------------------------------
(* Bills that are not complete are saved or pasted as a batch (SpecReject) *)

DocNoItems ==
    [title |-> <<"T">>, participants |-> << <<"A">> >>, items |-> <<>>]
DocNoParticipants ==
    [title |-> <<"T">>, participants |-> <<>>,
     items |-> << ImportItem(<<"t", "e", "a">>, 101, 0, 0, 0, << <<"A">> >>) >>]
DocBlankTitle ==
    [title |-> <<" ">>, participants |-> << <<"A">> >>,
     items |-> << ImportItem(<<"t", "e", "a">>, 101, 0, 0, 0, << <<"A">> >>) >>]

\* pasted arrays with a bill that lacks a title, participants or items
RejectDocs == {<<DocNoItems, DocTrim>>, <<DocNoParticipants, DocNoTitle>>,
               <<DocBlankTitle, DocNoItems>>}

\* the editor of a new bill as the user may have filled it
RejectEditors ==
    LET new == [BillEditor EXCEPT !.pc = "edit"]
        full == [handleImportJSON(new, DocTrim) EXCEPT !.alert = NULL]
    IN  {new,
         [new EXCEPT !.title = <<"T">>],
         addParticipant([new EXCEPT !.title = <<"T">>], <<"A">>),
         [full EXCEPT !.title = <<" ">>],
         full}

InitReject ==
    /\ EmptyStorage
    /\ \E e \in RejectEditors : ed = [c \in Clients |-> IF c = 1 THEN e ELSE BillEditor]
    /\ events = 0
    /\ faulty = TRUE
    /\ calc = NoCalc
    /\ summary = PaymentSummary
    /\ participant_payments = {}
    /\ session = NULL
    /\ dashboard = Dashboard

\* handleImportJSON with one of the arrays of RejectDocs
ImportIncomplete(c) ==
    /\ Editing(c)
    /\ ed[c].billId = NoId
    /\ \E billsData \in RejectDocs :
           Edit(c, [ed[c] EXCEPT !.pc = "batchBill", !.billsData = billsData,
                                 !.index = 1, !.successCount = 0,
                                 !.failCount = 0, !.batch = <<>>,
                                 !.currentBillId = NoId,
                                 !.itemsToInsert = <<>>,
                                 !.splitsToInsert = <<>>,
                                 !.totalAmount = RatZero,
                                 !.finalParticipants = <<>>, !.clean = TRUE,
                                 !.alert = NULL])

RejectStep(c) ==
    \/ ImportIncomplete(c)
    \/ BatchBill(c)
    \/ BatchParticipants(c)
    \/ BatchItems(c)
    \/ BatchSplits(c)
    \/ BatchTotal(c)
    \/ StartSave(c)
    \/ SaveBill(c)
    \/ InsertParticipants(c)
    \/ InsertItems(c)
    \/ InsertSplits(c)
    \/ UpdateTotal(c)

NextReject == RejectStep(1)

SpecReject == InitReject /\ [][NextReject]_vars

\* a bill in the editor, or a pasted bill, that is not complete
Incomplete(title, participants, items) ==
    Trim(title) = <<>> \/ Len(participants) = 0 \/ Len(items) = 0

\* handleSave is called in this step
SaveCalled(c) == ed[c].pc = "edit" /\ events' = events + 1 /\ ed'[c].pc # "batchBill"

\* the part of C24 on handleSave: a bill that is not complete is turned down
\* with a message, and no request is sent
C24_SaveRejects ==
    [][\A c \in Clients :
          (/\ SaveCalled(c)
           /\ Incomplete(ed[c].title, ed[c].participants, ed[c].items))
          => /\ ed'[c].pc = "edit"
             /\ ed'[c].alert \in {"title required", "participant required",
                                  "item required"}
             /\ storage' = storage]_vars

\* C24 as stated: handleSave and the import of several bills turn down a bill
\* with a blank title, without participants or without items: the bill is
\* counted as failed and no row of it is written.
C24_IncompleteRejected ==
    /\ C24_SaveRejects
    /\ [](\A c \in Clients : \A i \in DOMAIN ed[c].batch :
             LET b == ed[c].batch[i]
             IN  Incomplete(b.billData.title, b.billData.participants,
                            b.billData.items)
                 => ~b.success /\ b.billId \notin BillIds)

----------------------------------------------------------------------------
(* What a guest or another user can read (SpecOwner) *)

\* C25 as stated: row-level security lets a user read their own data only: no
\* client, guest or signed in, is shown the title, participants, items or
\* shares of a bill that somebody else created.
C25_OwnDataOnly ==
    \A c \in Clients :
        (/\ ed[c].billId \in BillIds
         /\ BillRow(ed[c].billId).created_by # ed[c].user)
        => /\ ed[c].title = <<>>
           /\ ed[c].participants = <<>>
           /\ ed[c].items = <<>>

----------------------------------------------------------------------------
(* Undo after the removal of a participant (Spec) *)

\* C26 as stated: in every state of an editor that can be edited, removing a
\* participant and then pressing undo gives back the participants and the
\* items the editor had just before the removal.
C26_UndoRestoresRemoval ==
    \A c \in Clients :
        (ed[c].pc = "edit" /\ ed[c].canEdit) =>
            \A i \in DOMAIN ed[c].participants :
                LET removed == removeParticipant(ed[c], ed[c].participants[i].id)
                    undone  == handleUndo(removed)
                IN  /\ undone.participants = ed[c].participants
                    /\ undone.items = ed[c].items

\* what the code keeps of C26: undo after a removal gives back the state that
\* was saved to the history before the last one, if there is one, and nothing
\* otherwise
C26_UndoRestoresEarlier ==
    \A c \in Clients :
        (ed[c].pc = "edit" /\ ed[c].canEdit) =>
            \A i \in DOMAIN ed[c].participants :
                LET removed == removeParticipant(ed[c], ed[c].participants[i].id)
                    undone  == handleUndo(removed)
                    kept    == SubSeq(ed[c].historyState, 1, ed[c].historyIndex + 1)
                IN  IF kept = <<>>
                    THEN /\ undone.participants = removed.participants
                         /\ undone.items = removed.items
                    ELSE /\ undone.participants = kept[Len(kept)].participants
                         /\ undone.items = kept[Len(kept)].items

----------------------------------------------------------------------------
(* The ids the items of the editor refer to (Spec) *)

\* C27 as stated: whenever the editor waits for the user, every id in the
\* participantIds of an item is the id of a participant of the editor's list.
C27_AssignedAreListed ==
    \A c \in Clients :
        ed[c].pc = "edit" =>
            \A i \in DOMAIN ed[c].items :
                Range(ed[c].items[i].participantIds)
                    \subseteq {ed[c].participants[j].id : j \in DOMAIN ed[c].participants}

\* what the code keeps of C27: the ids are those of listed participants as
\* long as no save has put stored ids into the list and failed afterwards
C27_ListedUntilSaveFails ==
    \A c \in Clients :
        (ed[c].pc = "edit" /\ ed[c].clean) =>
            \A i \in DOMAIN ed[c].items :
                Range(ed[c].items[i].participantIds)
                    \subseteq {ed[c].participants[j].id : j \in DOMAIN ed[c].participants}

----------------------------------------------------------------------------
(* What a failed save has written (Spec) *)

\* C28 as stated: when a save has failed at a request, storage holds nothing
\* of it: an existing bill has the participants, items, shares and
\* total_amount it had when the save began, a new bill has no row at all, and
\* a bill of a batch that was counted as failed has no row either.
C28_FailedSaveLeavesNothing ==
    /\ \A c \in Clients :
          LET e == ed[c] IN
          (e.pc = "edit" /\ e.alert = "save failed" /\ ~e.clean) =>
              IF e.billId = NoId
              THEN /\ e.currentBillId \notin BillIds
                   /\ ParticipantsOf(e.currentBillId) = {}
                   /\ ItemsOf(e.currentBillId) = {}
              ELSE /\ ParticipantsOf(e.billId) = e.stored.participants
                   /\ ItemsOf(e.billId) = e.stored.items
                   /\ SplitsOfBill(e.billId) = e.before
                   /\ e.billId \in BillIds
                   /\ BillRow(e.billId).total_amount = e.stored.total_amount
    /\ \A c \in Clients : \A i \in DOMAIN ed[c].batch :
          ~ed[c].batch[i].success =>
              /\ ed[c].batch[i].billId \notin BillIds
              /\ ParticipantsOf(ed[c].batch[i].billId) = {}

\* what the code keeps of C28: after a failed save the rows that the requests
\* before the failing one wrote are there, and none of a later request: a new
\* bill has no share, and no item unless the insert of the shares failed
C28_WrittenUpToFailure ==
    \A c \in Clients :
        LET e == ed[c] IN
        (e.pc = "edit" /\ e.alert = "save failed" /\ ~e.clean /\ e.billId = NoId) =>
            /\ SplitsOfBill(e.currentBillId) = {}
            /\ ItemsOf(e.currentBillId) # {} => e.splitsToInsert # <<>>
            /\ e.currentBillId \in BillIds =>
                  BillRow(e.currentBillId).total_amount = 0

----------------------------------------------------------------------------
(* The bills of a batch and the two counters (Spec) *)

\* handleBatchSave is in its loop
InBatch(e) ==
    e.pc \in {"batchBill", "batchParticipants", "batchItems", "batchSplits", "batchTotal"}

\* C29: handleBatchSave, once it has the session's user, goes through the
\* bills of the batch in order whatever happened to the earlier ones, and
\* counts each of them once, as a success or as a failure: while it is at
\* bill number index the two counters add up to index - 1, and when it has
\* finished they add up to the number of bills.
C29_EveryBillCounted ==
    \A c \in Clients :
        LET e == ed[c]
            successes == {i \in DOMAIN e.batch : e.batch[i].success}
        IN  (InBatch(e) \/ e.batch # <<>>) =>
                /\ Len(e.batch) = IF InBatch(e) THEN e.index - 1 ELSE Len(e.billsData)
                /\ InBatch(e) => e.index \in DOMAIN e.billsData
                /\ \A i \in DOMAIN e.batch : e.batch[i].billData = e.billsData[i]
                /\ e.successCount = Cardinality(successes)
                /\ e.failCount = Len(e.batch) - Cardinality(successes)
                /\ e.successCount + e.failCount = Len(e.batch)

\* a batch of two bills has finished: the first bill failed after its row was
\* written, the second was stored
C29_Witness ==
    \E c \in Clients :
        /\ ~InBatch(ed[c])
        /\ Len(ed[c].batch) = 2
        /\ ~ed[c].batch[1].success
        /\ ed[c].batch[1].billId # NoId
        /\ ed[c].batch[2].success
        /\ ed[c].batch[2].billId \in BillIds
        /\ ed[c].successCount = 1
        /\ ed[c].failCount = 1

----------------------------------------------------------------------------
(* components/Dashboard.tsx: the clicks on the list of bills *)

\* the flag the check button of a bill is drawn with
checkedOf(billId) ==
    LET shown == IF billId \in BillIds THEN bills ELSE SeenBills
    IN  (CHOOSE b \in shown : b.id = billId).checked

\* a click on the card of a bill, outside its buttons
ClickCard ==
    /\ ~dashboard.isModalOpen
    /\ events < MaxEvents
    /\ events' = events + 1
    /\ \E billId \in {b.id : b \in SeenBills} :
          dashboard' = Clicked(handleCardClick(handleMouseDown(dashboard), billId),
                               "card", billId, events')
    /\ UNCHANGED <<storage, ed, faulty, calc, summary, participant_payments, session>>

\* the list is dragged to scroll it: the button is pressed, moved further
\* than the threshold and released, and the click the browser sends to the
\* card under the pointer is dropped by handleCardClick
DragList ==
    /\ ~dashboard.isModalOpen
    /\ events < MaxEvents
    /\ events' = events + 1
    /\ \E billId \in {b.id : b \in SeenBills} :
          dashboard' = handleCardClick(handleMouseMove(handleMouseDown(dashboard)), billId)
    /\ UNCHANGED <<storage, ed, faulty, calc, summary, participant_payments, session>>

\* onClose of the bill modal
CloseModal ==
    /\ dashboard.isModalOpen
    /\ dashboard' = [dashboard EXCEPT !.isModalOpen = FALSE, !.selectedBillId = NoId]
    /\ UNCHANGED <<storage, ed, events, faulty, calc, summary, participant_payments, session>>

\* a click on the check button of a bill of the list
ClickCheck ==
    /\ session # NULL
    /\ ~dashboard.isModalOpen
    /\ events < MaxEvents
    /\ events' = events + 1
    /\ \E billId \in {b.id : b \in SeenBills} :
          dashboard' = Clicked(handleCheckClick(handleMouseDown(dashboard), billId,
                                                checkedOf(billId)),
                               "check", billId, events')
    /\ UNCHANGED <<storage, ed, faulty, calc, summary, participant_payments, session>>

\* the reply of the update of handleToggleChecked; the policy lets the
\* creator of the bill update it
ToggleArrives ==
    /\ \E t \in dashboard.toggling, ok \in Outcomes :
          /\ Request(ok)
          /\ bills' =
                 IF ok
                 THEN {IF b.id = t.billId /\ b.created_by = session
                       THEN [b EXCEPT !.checked = t.checked]
                       ELSE b : b \in bills}
                 ELSE bills
          /\ dashboard' = [dashboard EXCEPT
                              !.toggling = @ \ {t},
                              !.alert = IF ok THEN @ ELSE "update failed"]
    /\ UNCHANGED <<bill_participants, bill_items, split_details, nextId, ed, faulty,
                   calc, summary, participant_payments, session>>

NextClicks ==
    \/ ClickDelete
    \/ DeleteArrives
    \/ ClickCard
    \/ DragList
    \/ CloseModal
    \/ ClickCheck
    \/ ToggleArrives

SpecClicks == InitDelete /\ [][NextClicks]_vars

\* this step is a click on the delete button of bill b
DeleteClickOn(b) ==
    /\ dashboard'.last.at # dashboard.last.at
    /\ dashboard'.last.kind = "delete"
    /\ dashboard'.last.billId = b

\* the latest click before this step was on the delete button of bill b
FollowsDeleteClick(b) ==
    /\ dashboard.last.kind = "delete"
    /\ dashboard.last.billId = b

\* C30: on the dashboard a bill is deleted only by two consecutive clicks on
\* its own delete button. A delete request for a bill is sent only by a click
\* on its delete button whose preceding click was on that same button; a
\* delete click that follows anything else (no click, a click on another
\* bill's delete button, on a card or on a check button) sends nothing,
\* deletes nothing and only marks the bill as pending; a click on a card or
\* on a check button leaves no bill marked; and a bill leaves storage only
\* through a request sent that way.
C30_TwoClicksDelete ==
    [][ /\ \A b \in {r.id : r \in SeenBills} :
             /\ b \in dashboard'.deleting \ dashboard.deleting =>
                    DeleteClickOn(b) /\ FollowsDeleteClick(b)
             /\ DeleteClickOn(b) /\ ~FollowsDeleteClick(b) =>
                    /\ dashboard'.deleting = dashboard.deleting
                    /\ dashboard'.pendingDeleteId = b
                    /\ UNCHANGED storage
        /\ dashboard'.last.at # dashboard.last.at
              /\ dashboard'.last.kind \in {"card", "check"} =>
                 /\ dashboard'.pendingDeleteId = NoId
                 /\ dashboard'.deleting = dashboard.deleting
        /\ BillIds' # BillIds =>
              \E b \in dashboard.deleting : BillIds' = BillIds \ {b}
      ]_vars

\* bill 1 was deleted by the third and fourth click, both on its delete
\* button, after a click on the check button of bill 2 had checked that bill
C30_Witness ==
    /\ 1 \notin BillIds
    /\ \E d \in dashboard.deleted : d.billId = 1
    /\ dashboard.last = [kind |-> "delete", billId |-> 1, at |-> 4]
    /\ dashboard.before = [kind |-> "delete", billId |-> 1, at |-> 3]
    /\ \E b \in bills : b.id = 2 /\ b.checked

====
